---- MODULE Spec2Model ----
(***************************************************************************)
(* Model of the seniorsatwork-matching candidate enrichment and ranking    *)
(* engine: the embedding cache and aggregator, the title standardizer,     *)
(* the bulk indexer, the ingestion loop, the match request handler, the    *)
(* configuration store and the seniority and recency functions of the ETL. *)
(*                                                                         *)
(* Each subsystem has its own next-state relation and specification over   *)
(* the same variables:                                                     *)
(*   SpecEmbed   calls of embed_text / weighted_mean_embedding             *)
(*   SpecTitles  calls of apply_standardized_titles / map_titles_batch     *)
(*   SpecMatch   bulk_index_candidates and run_match on the index          *)
(*   SpecIngest  the loop of scripts/initial_load.py                       *)
(*   SpecConfig  PATCH /api/config on the configuration store              *)
(*   SpecScore   run_match under changing weights and thresholds           *)
(*   SpecPipeline  the initial load followed by run_match                  *)
(*   SpecEtl     the seniority classifier, recency_weight, the experience  *)
(*               scorer and transform_candidate                            *)
(*   SpecExplain build_rank_explanation                                    *)
(*   SpecRace    update_config and load_config running concurrently        *)
(*   SpecSync    scripts/incremental_sync.py and scripts/jobs_sync.py      *)
(*   SpecJob     GET /api/jobs/{post_id}/matches                           *)
(***************************************************************************)
EXTENDS Integers, Sequences, FiniteSets, TLC

VARIABLES
    embDb,      \* embeddings.db on disk: "absent", "empty" (file, no table), "ready"
    embCache,   \* rows of table embeddings: key -> stored vector or None
    embOut,     \* what the last embedding call did (argument, result, external calls, writes)
    firstVec,   \* history: the vector the first returned embed_text(t) handed to its caller
    titleCache, \* rows of table title_mappings: raw title -> std_title or NoStd
    titleOut,   \* the map_titles_batch / apply_standardized_titles call in progress
    titleSeen,  \* history: titles contained in a map_titles_batch call that has returned
    esIndex,    \* the candidates index of the search backend: a set of documents
    idxOut,     \* what the last bulk_index_candidates call did
    matchOut,   \* what the last run_match call did
    ing,        \* the ingestion run (scripts/initial_load.py main): position and batch
    cfgStore,   \* config.json: no file or no complete document in it ({}), or
                \* the one configuration it holds
    cfgOut,     \* what the last PATCH /api/config did
    etlOut,     \* what the last call of an ETL function returned
    explainOut, \* what the last call of _build_rank_explanation returned
    race,       \* concurrent requests on the configuration: position, body and
                \* loaded configuration of each PATCH, and the last read
    sync,       \* a delta sync against the source database
    jobOut      \* what the last GET /api/jobs/{id}/matches did

embVars   == <<embDb, embCache, embOut, firstVec>>
titleVars == <<titleCache, titleOut, titleSeen>>
indexVars == <<esIndex, idxOut>>
matchVars == <<matchOut>>
ingVars   == <<ing>>
cfgVars   == <<cfgStore, cfgOut>>
etlVars   == <<etlOut>>
coreVars  == <<embVars, titleVars, indexVars, matchVars, ingVars, cfgVars, etlVars>>
explainVars == <<explainOut>>
raceVars  == <<race>>
syncVars  == <<sync>>
jobVars   == <<jobOut>>
extVars   == <<explainVars, raceVars, syncVars, jobVars>>

vars == <<embDb, embCache, embOut, firstVec, titleCache, titleOut, titleSeen,
          esIndex, idxOut, matchOut, ing, cfgStore, cfgOut, etlOut,
          explainOut, race, sync, jobOut>>

(***************************************************************************)
(* Bounds and scaled program constants.                                    *)
(***************************************************************************)
\* generator.py DIMS = 1536, mappings.py DENSE_DIMS = 1536: scaled down.
Dims == 2
\* longest (text, weight) item list handed to weighted_mean_embedding
MaxItems == 2
\* title_standardizer.py BATCH_SIZE = 20: scaled down.
TitleBatchSize == 1
\* most work-history entries of one candidate
MaxExp == 2
\* initial_load.py BATCH_SIZE = 200: scaled down.
LoadBatchSize == 1

\* Python None where a vector is expected (a vector has Dims >= 1 components)
None == <<>>

(***************************************************************************)
(* Python helpers.                                                         *)
(***************************************************************************)
\* str.strip() on the texts of the model
Strip(t) ==
    CASE t = " "   -> ""
      [] t = " a"  -> "a"
      [] OTHER     -> t

Texts == {"", " ", "a", " a", "b"}
\* the stripped texts: what the cache is keyed by and what the provider is sent
Keys  == {Strip(t) : t \in Texts} \cup {"Professional", "Accountant"}

Max(a, b) == IF a >= b THEN a ELSE b
Min(a, b) == IF a <= b THEN a ELSE b

RECURSIVE SumSeq(_)
SumSeq(s) == IF s = <<>> THEN 0 ELSE Head(s) + SumSeq(Tail(s))

\* [0.0] * DIMS
ZeroVec == [i \in 1..Dims |-> 0]

(***************************************************************************)
(* Vector components are integers counting half units of float32           *)
(* precision: the even numbers are the values a float32 can hold, the odd  *)
(* ones are Python floats (float64) that lie between two float32 values.   *)
(***************************************************************************)
\* np.array(vector, dtype=np.float32): round to the nearest float32
ToFloat32(x) == 2 * ((x + 1) \div 2)

Float32Vec(v) == [i \in 1..Dims |-> ToFloat32(v[i])]

\* The embedding provider is deterministic for identical input text: the
\* embedding of "a" has components no float32 holds exactly, the one of "b"
\* is the float32-exact unit vector.
Embedding(t) ==
    IF t = "a" THEN [i \in 1..Dims |-> 1]
    ELSE [i \in 1..Dims |-> IF i = 1 THEN 2 ELSE 0]

\* no element of resp.data carries the index of this input
Missing == <<-1>>

\* The embedding provider during one handler: client.embeddings.create
\* raises, answers with one embedding per input, or answers with no data.
Providers ==
    { [raise |-> TRUE,  vecs |-> [k \in Keys |-> Missing]],
      [raise |-> FALSE, vecs |-> [k \in Keys |-> Embedding(k)]],
      [raise |-> FALSE, vecs |-> [k \in Keys |-> Missing]] }

(***************************************************************************)
(* embeddings/cache.py                                                     *)
(***************************************************************************)
\* hashlib.sha256(text): taken to be collision free
TextHash(t) == t

EmptyCache == [k \in Keys |-> None]

\* get_cached_embedding: [raised, val]
get_cached_embedding(text, db, cache) ==
    IF text = "" \/ Strip(text) = "" THEN [raised |-> FALSE, val |-> None]
    ELSE IF db = "absent" THEN [raised |-> FALSE, val |-> None]
    \* SELECT on a database file that has no table embeddings:
    \* sqlite3.OperationalError, not caught
    ELSE IF db = "empty" THEN [raised |-> TRUE, val |-> None]
    ELSE [raised |-> FALSE, val |-> cache[TextHash(Strip(text))]]

\* set_cached_embedding: CREATE TABLE IF NOT EXISTS, INSERT OR REPLACE of the
\* float32 bytes; the new rows of the table
set_cached_embedding(text, vector, cache) ==
    [cache EXCEPT ![TextHash(Strip(text))] = Float32Vec(vector)]

(***************************************************************************)
(* embeddings/generator.py                                                 *)
(***************************************************************************)
\* the blank test without the strip: "if not t"
IsBlankNoStrip(t) == t = ""

\* not (t and t.strip())
IsBlank(t) == t = "" \/ Strip(t) = ""

\* positions of texts that are sent to the provider: non-blank, not cached
RECURSIVE MissIdx(_, _, _, _)
MissIdx(texts, i, db, cache) ==
    IF i > Len(texts) THEN <<>>
    ELSE IF ~IsBlank(texts[i])
            /\ get_cached_embedding(Strip(texts[i]), db, cache).val = None
         THEN <<i>> \o MissIdx(texts, i + 1, db, cache)
         ELSE MissIdx(texts, i + 1, db, cache)

\* by_idx.get(j, by_idx.get(len(to_call) - 1, [0.0] * DIMS))
ByIdx(prov, to_call, j) ==
    IF prov.vecs[to_call[j]] # Missing THEN prov.vecs[to_call[j]]
    ELSE IF prov.vecs[to_call[Len(to_call)]] # Missing
         THEN prov.vecs[to_call[Len(to_call)]]
         ELSE ZeroVec

\* the loop "for j, idx in enumerate(indices)": cache after writing to_call[1..j]
RECURSIVE WriteAll(_, _, _, _)
WriteAll(prov, to_call, j, cache) ==
    IF j = 0 THEN cache
    ELSE set_cached_embedding(to_call[j], ByIdx(prov, to_call, j),
                            WriteAll(prov, to_call, j - 1, cache))

\* position of i in the sequence of indices (0 when absent)
PosOf(indices, i) ==
    IF \E j \in 1..Len(indices) : indices[j] = i
    THEN CHOOSE j \in 1..Len(indices) : indices[j] = i
    ELSE 0

\* _embed_batch(texts, client, cache_path): [raised, out, db, cache, sent, wrote]
\*   raised: an exception leaves the function
\*   out   : results
\*   sent  : the inputs of the embeddings.create calls made, one per call
\*   wrote : keys written to the cache
embed_batch(texts, prov, db, cache) ==
    LET indices == MissIdx(texts, 1, db, cache)
        to_call == [j \in 1..Len(indices) |-> Strip(texts[indices[j]])]
        readRaised == \E i \in 1..Len(texts) :
                         ~IsBlank(texts[i])
                         /\ get_cached_embedding(Strip(texts[i]), db, cache).raised
    IN  IF readRaised
        THEN [raised |-> TRUE, err |-> "cache", out |-> None, db |-> db,
              cache |-> cache, sent |-> <<>>, wrote |-> {}]
        ELSE IF to_call = <<>>
        THEN [raised |-> FALSE, err |-> "",
              out |-> [i \in 1..Len(texts) |->
                         IF IsBlank(texts[i]) THEN ZeroVec
                         ELSE get_cached_embedding(Strip(texts[i]), db, cache).val],
              db |-> db, cache |-> cache, sent |-> <<>>, wrote |-> {}]
        ELSE IF prov.raise
        THEN [raised |-> TRUE, err |-> "provider", out |-> None, db |-> db,
              cache |-> cache, sent |-> <<to_call>>, wrote |-> {}]
        ELSE [raised |-> FALSE, err |-> "",
              out |-> [i \in 1..Len(texts) |->
                         IF IsBlank(texts[i]) THEN ZeroVec
                         ELSE IF PosOf(indices, i) # 0
                              THEN ByIdx(prov, to_call, PosOf(indices, i))
                              ELSE get_cached_embedding(Strip(texts[i]), db, cache).val],
              db |-> "ready",
              cache |-> WriteAll(prov, to_call, Len(to_call), cache),
              sent |-> <<to_call>>,
              wrote |-> {TextHash(to_call[j]) : j \in 1..Len(to_call)}]

\* embed_text(text, client, cache_path)
embed_text(text, prov, db, cache) ==
    IF text = "" \/ Strip(text) = ""
    THEN [raised |-> FALSE, err |-> "", out |-> ZeroVec, db |-> db, cache |-> cache,
          sent |-> <<>>, wrote |-> {}]
    ELSE LET cached == get_cached_embedding(Strip(text), db, cache)
         IN  IF cached.raised
             THEN [raised |-> TRUE, err |-> "cache", out |-> None, db |-> db,
                   cache |-> cache, sent |-> <<>>, wrote |-> {}]
             ELSE IF cached.val # None
             THEN [raised |-> FALSE, err |-> "", out |-> cached.val, db |-> db, cache |-> cache,
                   sent |-> <<>>, wrote |-> {}]
             ELSE LET r == embed_batch(<<Strip(text)>>, prov, db, cache)
                  IN  IF r.raised THEN r
                      ELSE [r EXCEPT !.out = r.out[1]]

\* weights = [max(0.0, float(x[1])) for x in items]
ClampedWeights(items) == [i \in 1..Len(items) |-> Max(0, items[i][2])]

\* weighted_mean_embedding(items, client, cache_path); the quotient
\* out[i] / total_w is kept on the integer grid of the components
weighted_mean_embedding(items, prov, db, cache) ==
    LET weights == ClampedWeights(items)
        total_w == SumSeq(weights)
        texts   == [i \in 1..Len(items) |-> items[i][1]]
    IN  IF items = <<>> \/ total_w <= 0
        THEN [raised |-> FALSE, err |-> "", out |-> None, db |-> db, cache |-> cache,
              sent |-> <<>>, wrote |-> {}]
        ELSE LET r == embed_batch(texts, prov, db, cache)
             IN  IF r.raised THEN r
                 ELSE [r EXCEPT !.out =
                         [d \in 1..Dims |->
                            SumSeq([i \in 1..Len(items) |-> r.out[i][d] * weights[i]])
                              \div total_w]]

(***************************************************************************)
(* Embedding subsystem: the calls of the embedding functions and a second  *)
(* process that is creating the cache file.                                *)
(***************************************************************************)
ItemTexts == {" ", "a", "b"}
Weights   == {-1, 1, 2}
ItemLists == UNION {[1..n -> ItemTexts \X Weights] : n \in 0..MaxItems}

\* no embedding call in progress
EmbIdle == [op |-> "none", text |-> "", items |-> <<>>, raised |-> FALSE,
            err |-> "", out |-> None, sent |-> <<>>, wrote |-> {}, again |-> FALSE]

EmbInit ==
    /\ embDb = "absent"
    /\ embCache = EmptyCache
    /\ embOut = EmbIdle
    /\ firstVec = [k \in Keys |-> None]

\* a caller runs embed_text(t)
EmbedText ==
    /\ embOut = EmbIdle
    /\ UNCHANGED <<titleVars, indexVars, matchVars, ingVars>>
    /\ UNCHANGED <<cfgVars, etlVars, extVars>>
    /\ \E t \in Texts, prov \in Providers :
      \E r \in {embed_text(t, prov, embDb, embCache)} :
        LET k == Strip(t)
        IN  /\ embDb' = r.db
            /\ embCache' = r.cache
            /\ embOut' = [op |-> "embed_text", text |-> t, items |-> <<>>,
                          raised |-> r.raised, err |-> r.err, out |-> r.out, sent |-> r.sent,
                          wrote |-> r.wrote,
                          again |-> IF k = "" THEN FALSE ELSE firstVec[k] # None]
            /\ firstVec' = IF k # "" /\ ~r.raised /\ firstVec[k] = None
                           THEN [firstVec EXCEPT ![k] = r.out]
                           ELSE firstVec

\* a caller runs weighted_mean_embedding(items)
WeightedMean ==
    /\ embOut = EmbIdle
    /\ UNCHANGED <<titleVars, indexVars, matchVars, ingVars>>
    /\ UNCHANGED <<cfgVars, etlVars, extVars>>
    /\ \E items \in ItemLists, prov \in Providers :
      \E r \in {weighted_mean_embedding(items, prov, embDb, embCache)} :
            /\ embDb' = r.db
            /\ embCache' = r.cache
            /\ embOut' = [op |-> "weighted_mean", text |-> "", items |-> items,
                          raised |-> r.raised, err |-> r.err, out |-> r.out, sent |-> r.sent,
                          wrote |-> r.wrote, again |-> FALSE]
            /\ UNCHANGED firstVec

\* another process is inside set_cached_embedding: sqlite3.connect has
\* created the database file, CREATE TABLE has not run yet
WriterConnects ==
    /\ embDb = "absent"
    /\ embDb' = "empty"
    /\ UNCHANGED <<embCache, embOut, firstVec>>
    /\ UNCHANGED <<titleVars, indexVars, matchVars, ingVars>>
    /\ UNCHANGED <<cfgVars, etlVars, extVars>>

\* that process runs CREATE TABLE IF NOT EXISTS embeddings
WriterCreatesTable ==
    /\ embDb = "empty"
    /\ embDb' = "ready"
    /\ UNCHANGED <<embCache, embOut, firstVec>>
    /\ UNCHANGED <<titleVars, indexVars, matchVars, ingVars>>
    /\ UNCHANGED <<cfgVars, etlVars, extVars>>

\* the caller takes the result of the embedding call
EmbReturn ==
    /\ embOut # EmbIdle
    /\ embOut' = EmbIdle
    /\ UNCHANGED <<embDb, embCache, firstVec>>
    /\ UNCHANGED <<titleVars, indexVars, matchVars, ingVars>>
    /\ UNCHANGED <<cfgVars, etlVars, extVars>>

NextEmbed ==
    \/ EmbedText
    \/ WeightedMean
    \/ WriterConnects
    \/ WriterCreatesTable
    \/ EmbReturn

(***************************************************************************)
(* etl/title_standardizer.py                                               *)
(***************************************************************************)
\* Python None where a title string is expected
NoStd == "<None>"

\* the canonical vocabulary (standardized_titles.txt)
StandardizedTitles == {"Accountant", "Engineer"}

\* no key for this raw title in the JSON object the service answered
Omit == "<omitted>"

\* what the mapping service may answer for one raw title: a vocabulary
\* entry, 'NONE', a title that is not in the vocabulary, or nothing
Answers == {"Accountant", "NONE", "Wizard", Omit}

\* raw_title of a work-history entry ("" for a missing one)
RawTitles == {"", " ", "a", " a", "b"}

TitleKeys == {Strip(t) : t \in RawTitles} \ {""}

\* number of external calls one map_titles_batch can need
MaxBatches == (MaxExp + TitleBatchSize - 1) \div TitleBatchSize

\* The mapping service during one map_titles_batch call.  kind[b] is what
\* happens to the b-th chat.completions.create call: "ok" (a JSON object),
\* "fail" (the call raises or its content is not JSON), "nondict" (JSON
\* that is not an object).  ans[t] is what an "ok" object holds for t.
Services ==
    [kind : [1..MaxBatches -> {"ok", "fail", "nondict"}],
     ans  : [TitleKeys -> Answers]]

\* get_cached_mapping(raw_title)
get_cached_mapping(raw_title, cache) == cache[Strip(raw_title)]

\* set_cached_mapping(raw_title, std_title): INSERT OR REPLACE
set_cached_mapping(raw_title, std_title, cache) ==
    [cache EXCEPT ![Strip(raw_title)] = std_title]

\* the first loop of map_titles_batch: the stripped, non-blank, uncached
\* titles, in input order
RECURSIVE ToMap(_, _, _)
ToMap(raw_titles, i, cache) ==
    IF i > Len(raw_titles) THEN <<>>
    ELSE IF Strip(raw_titles[i]) # ""
            /\ get_cached_mapping(Strip(raw_titles[i]), cache) = NoStd
         THEN <<Strip(raw_titles[i])>> \o ToMap(raw_titles, i + 1, cache)
         ELSE ToMap(raw_titles, i + 1, cache)

\* result after the first loop: the cached titles
CachedResult(raw_titles, cache) ==
    [k \in Keys |->
        IF k # "" /\ (\E i \in 1..Len(raw_titles) : Strip(raw_titles[i]) = k)
        THEN get_cached_mapping(k, cache)
        ELSE NoStd]

\* batch = to_map[i : i + BATCH_SIZE], for the b-th batch
Batch(to_map, b) ==
    SubSeq(to_map, (b - 1) * TitleBatchSize + 1,
           Min(b * TitleBatchSize, Len(to_map)))

\* std = (std or "NONE").strip()
StdOrNone(std) == IF std = "" THEN "NONE" ELSE std

\* the mapping of one batch with the except branch leaving it empty
BatchMappingFailEmpty(batch, svc, b) ==
    [k \in Keys |->
        IF (\E j \in 1..Len(batch) : batch[j] = k) /\ svc.kind[b] # "fail"
        THEN svc.ans[k]
        ELSE Omit]

\* the mapping of one batch: the parsed JSON object, or every title of the
\* batch to 'NONE' when the call raised or json.loads failed
BatchMapping(batch, svc, b) ==
    [k \in Keys |->
        IF \E j \in 1..Len(batch) : batch[j] = k
        THEN IF svc.kind[b] = "fail" THEN "NONE" ELSE svc.ans[k]
        ELSE Omit]

\* "for raw, std in mapping.items()": result and cache after one batch
StoreBatch(mapping, st) ==
    [st EXCEPT
       !.result = [k \in Keys |->
                     IF mapping[k] # Omit THEN StdOrNone(mapping[k])
                     ELSE st.result[k]],
       !.cache  = [k \in Keys |->
                     IF mapping[k] # Omit THEN StdOrNone(mapping[k])
                     ELSE st.cache[k]]]

\* the loop over the batches, from batch b on
RECURSIVE MapBatches(_, _, _, _)
MapBatches(to_map, svc, b, st) ==
    IF (b - 1) * TitleBatchSize >= Len(to_map) THEN st
    ELSE LET batch == Batch(to_map, b)
             sent  == [st EXCEPT !.sent = Append(st.sent, batch)]
         IN  IF svc.kind[b] = "nondict"
             \* mapping.items() on a list or a string: AttributeError, not caught
             THEN [sent EXCEPT !.raised = TRUE]
             ELSE MapBatches(to_map, svc, b + 1,
                             StoreBatch(BatchMapping(batch, svc, b), sent))

\* map_titles_batch(raw_titles, standardized_titles, client, cache_path):
\* [raised, result, cache, sent]; sent holds one batch per external call
map_titles_batch(raw_titles, svc, cache) ==
    MapBatches(ToMap(raw_titles, 1, cache), svc, 1,
               [raised |-> FALSE,
                result |-> CachedResult(raw_titles, cache),
                cache  |-> cache,
                sent   |-> <<>>])

\* the orders in which list(set) may hand the elements of S on
Orderings(S) ==
    {o \in [1..Cardinality(S) -> S] :
        \A i, j \in 1..Cardinality(S) : o[i] = o[j] => i = j}

\* raw_titles = list({exp.get("raw_title", "").strip() for exp in experiences
\*                    if exp.get("raw_title")}), as a set
RawTitleSet(raws) == {Strip(raws[i]) : i \in {j \in 1..Len(raws) : raws[j] # ""}}

\* apply_standardized_titles(candidate, standardized_titles, client, cache_path)
\* on the raw titles of the work-history entries ("" for a missing one);
\* order is the order of list(set): [raised, std, result, cache, sent]
apply_standardized_titles(raws, order, svc, cache) ==
    IF raws = <<>>
    THEN [raised |-> FALSE, std |-> <<>>, result |-> [k \in Keys |-> NoStd],
          cache |-> cache, sent |-> <<>>]
    ELSE LET m == map_titles_batch(order, svc, cache)
         IN  [raised |-> m.raised,
              std    |-> IF m.raised THEN <<>>
                         ELSE [i \in 1..Len(raws) |->
                                 IF Strip(raws[i]) # ""
                                    /\ m.result[Strip(raws[i])] # NoStd
                                 THEN m.result[Strip(raws[i])]
                                 ELSE "NONE"],
              result |-> m.result,
              cache  |-> m.cache,
              sent   |-> m.sent]

(***************************************************************************)
(* Title subsystem: the calls of apply_standardized_titles on the work     *)
(* history of a candidate, each with its call of map_titles_batch (the     *)
(* only caller of map_titles_batch: the titles it hands over are stripped  *)
(* and distinct).                                                          *)
(***************************************************************************)
Histories == UNION {[1..n -> RawTitles] : n \in 0..MaxExp}

TitleIdle == [op |-> "none", raws |-> <<>>, raw_titles |-> <<>>,
              raised |-> FALSE, std |-> <<>>,
              result |-> [k \in Keys |-> NoStd], sent |-> <<>>,
              kind |-> <<>>, ans |-> <<>>]

TitleInit ==
    /\ titleCache = [k \in Keys |-> NoStd]
    /\ titleOut = TitleIdle
    /\ titleSeen = {}

\* a caller runs apply_standardized_titles(candidate, ...)
ApplyStandardizedTitles ==
    /\ titleOut = TitleIdle
    /\ UNCHANGED <<embVars, indexVars, matchVars, ingVars>>
    /\ UNCHANGED <<cfgVars, etlVars, extVars>>
    /\ \E raws \in Histories, svc \in Services :
       \E order \in Orderings(RawTitleSet(raws)) :
       \E r \in {apply_standardized_titles(raws, order, svc, titleCache)} :
            /\ titleCache' = r.cache
            /\ titleOut' = [op |-> "apply_standardized_titles", raws |-> raws,
                            raw_titles |-> order,
                            raised |-> r.raised, std |-> r.std,
                            result |-> r.result, sent |-> r.sent,
                            kind |-> [b \in 1..Len(r.sent) |-> svc.kind[b]],
                            ans |-> [b \in 1..Len(r.sent) |->
                                       [j \in 1..Len(r.sent[b]) |-> svc.ans[r.sent[b][j]]]]]
            /\ UNCHANGED titleSeen

\* the caller takes the result (or the exception) of the call
TitleReturn ==
    /\ titleOut # TitleIdle
    /\ titleOut' = TitleIdle
    /\ titleSeen' = IF titleOut.raised THEN titleSeen
                    ELSE titleSeen \cup
                         ({titleOut.raw_titles[i] :
                              i \in 1..Len(titleOut.raw_titles)} \ {""})
    /\ UNCHANGED titleCache
    /\ UNCHANGED <<embVars, indexVars, matchVars, ingVars>>
    /\ UNCHANGED <<cfgVars, etlVars, extVars>>

NextTitles ==
    \/ ApplyStandardizedTitles
    \/ TitleReturn

(***************************************************************************)
(* es_layer/indexer.py                                                     *)
(***************************************************************************)
\* post ids of the candidates of the model
PostIds == {1, 2}

\* unit = [0.0] * dims; unit[0] = 1.0
UnitVec == [i \in 1..Dims |-> IF i = 1 THEN 2 ELSE 0]

\* sum(x * x for x in vec)
SumSquares(vec) == SumSeq([i \in 1..Len(vec) |-> vec[i] * vec[i]])

\* the vector check without the test of the length
ensure_nonzero_vector_any_len(vec) ==
    IF vec = None THEN None
    ELSE IF SumSquares(vec) > 0 THEN vec
    ELSE UnitVec

\* _ensure_nonzero_vector(vec, dims = DENSE_DIMS); None and [] are both "not vec"
ensure_nonzero_vector(vec) ==
    IF vec = None \/ Len(vec) # Dims THEN None
    ELSE IF SumSquares(vec) > 0 THEN vec
    ELSE UnitVec

\* _candidate_doc(c): the fields of the document that the filters and the
\* score script read, and the texts the vectors were made from; lat and lon
\* are None or a one-element tuple
candidate_doc(c) ==
    [post_id  |-> c.post_id,
     location |-> IF c.lat # None /\ c.lon # None
                  THEN <<c.lat[1], c.lon[1]>> ELSE None,
     pensum_desired |-> c.pensum_desired,
     pensum_from    |-> c.pensum_from,
     work_experiences |-> c.work_experiences,
     aggregated_title_embedding |->
         ensure_nonzero_vector(c.aggregated_title_embedding),
     aggregated_industry_embedding |->
         ensure_nonzero_vector(c.aggregated_industry_embedding),
     skills_embedding |-> ensure_nonzero_vector(c.skills_embedding),
     education_embedding |-> ensure_nonzero_vector(c.education_embedding),
     skills_text |-> c.skills_text,
     education_text |-> c.education_text]

\* gen(): the index actions (their _source), from candidate i on
RECURSIVE GenActions(_, _)
GenActions(candidates, i) ==
    IF i > Len(candidates) THEN <<>>
    ELSE LET doc == candidate_doc(candidates[i])
         IN  IF doc.location = None THEN GenActions(candidates, i + 1)
             ELSE IF doc.aggregated_title_embedding = None
                  THEN GenActions(candidates, i + 1)
                  ELSE <<doc>> \o GenActions(candidates, i + 1)

\* the index after the backend has stored doc under _id = str(post_id)
IndexDoc(index, doc) ==
    {d \in index : d.post_id # doc.post_id} \cup {doc}

\* "for ok, item in helpers.streaming_bulk(...)" with raise_on_error and
\* raise_on_exception False: the backend rejects the documents whose id is
\* in rejected and stores the others
RECURSIVE StreamingBulk(_, _, _, _)
StreamingBulk(actions, j, rejected, st) ==
    IF j > Len(actions) THEN st
    ELSE IF actions[j].post_id \in rejected
         THEN StreamingBulk(actions, j + 1, rejected,
                 [st EXCEPT !.failed = @ + 1,
                            !.errors = Append(@, actions[j].post_id)])
         ELSE StreamingBulk(actions, j + 1, rejected,
                 [st EXCEPT !.success = @ + 1,
                            !.index = IndexDoc(@, actions[j])])

\* bulk_index_candidates(es, candidates, errors = errors):
\* [success, failed, errors, index, actions]
bulk_index_candidates(candidates, rejected, index) ==
    LET actions == GenActions(candidates, 1)
        r == StreamingBulk(actions, 1, rejected,
                 [success |-> 0, failed |-> 0, errors |-> <<>>, index |-> index])
    IN  [success |-> r.success, failed |-> r.failed, errors |-> r.errors,
         index |-> r.index, actions |-> actions]

(***************************************************************************)
(* Index subsystem: callers of bulk_index_candidates with any candidates.  *)
(***************************************************************************)
\* a title vector may be absent, zero, of another length, or well formed
TitleVectors == {None, ZeroVec, [i \in 1..(Dims + 1) |-> 2], Embedding("b")}

\* pensum_desired, pensum_from of a candidate
Pensums == {<<100, 0>>, <<50, 50>>}

\* the candidates have no work history and no skills text; their skills
\* vector is missing
Candidates ==
    {[post_id |-> id, lat |-> lat, lon |-> lon,
      pensum_desired |-> p[1], pensum_from |-> p[2],
      work_experiences |-> <<>>, skills_text |-> "", education_text |-> "b",
      aggregated_title_embedding |-> v,
      aggregated_industry_embedding |-> ZeroVec,
      skills_embedding |-> None,
      education_embedding |-> Embedding("b")] :
        id \in PostIds, lat \in {None, <<0>>}, lon \in {None, <<8>>},
        p \in Pensums, v \in TitleVectors}

\* lists of candidates with distinct post ids, in the order of the ids
CandidateLists ==
    {<<>>} \cup {<<c>> : c \in Candidates}
           \cup {l \in Candidates \X Candidates : l[1].post_id < l[2].post_id}

IdxIdle == [op |-> "none", candidates |-> <<>>, actions |-> <<>>, rejected |-> {},
            success |-> 0, failed |-> 0, errors |-> <<>>]

IndexInit ==
    /\ esIndex = {}
    /\ idxOut = IdxIdle

\* a caller runs bulk_index_candidates(es, candidates) with a list of lists
\* while the backend rejects the documents of a set of rejects
BulkIndexOn(lists, rejects) ==
    /\ idxOut = IdxIdle
    /\ matchOut.op = "none"
    /\ UNCHANGED <<embVars, titleVars, matchVars, ingVars>>
    /\ UNCHANGED <<cfgVars, etlVars, extVars>>
    /\ \E candidates \in lists, rejected \in rejects :
       \E r \in {bulk_index_candidates(candidates, rejected, esIndex)} :
            /\ esIndex' = r.index
            /\ idxOut' = [op |-> "bulk_index_candidates", candidates |-> candidates,
                          actions |-> r.actions, rejected |-> rejected,
                          success |-> r.success, failed |-> r.failed,
                          errors |-> r.errors]

\* any caller, any candidates
BulkIndexCandidates == BulkIndexOn(CandidateLists, {{}, {1}})

\* the caller takes (success_count, fail_count)
IndexReturn ==
    /\ idxOut # IdxIdle
    /\ idxOut' = IdxIdle
    /\ UNCHANGED esIndex
    /\ UNCHANGED <<embVars, titleVars, matchVars, ingVars>>
    /\ UNCHANGED <<cfgVars, etlVars, extVars>>

(***************************************************************************)
(* es_layer/queries.py, api/config.py                                      *)
(***************************************************************************)
\* config.py DEFAULT_MIN_SCORE_RAW = 1.55; scores are counted in hundredths
MinScoreRaw == 155
\* config.py DEFAULT_MAX_RESULTS = 20
DefaultMaxResults == 20

\* the filter list without the range filter on pensum_from
build_hard_filters_no_pensum_from(req) ==
    << [f |-> "exists", field |-> "location"],
       [f |-> "geo_distance", distance |-> req.radius_km,
        lat |-> req.location_lat, lon |-> req.location_lon],
       [f |-> "range", field |-> "pensum_desired", op |-> "gte",
        value |-> req.pensum_min] >>

\* str.upper() of a language level
Upper(text) ==
    CASE text = "c1" -> "C1"
      [] text = "native" -> "NATIVE"
      [] text = "Fluent" -> "FLUENT"
      [] OTHER -> text

\* _acceptable_degrees(min_level): the degree labels that satisfy a level
acceptable_degrees(min_level) ==
    IF min_level \in {"C1", "C2", "NATIVE", "NATIVE "}
    THEN <<"Mother tongue", "Fluent">>
    ELSE <<"Mother tongue", "Fluent", "Intermediate">>

\* the loop over required_languages: one nested filter per requirement that
\* has a name; min_level = (lang_req.get("min_level") or "B2").upper()
RECURSIVE language_filters(_)
language_filters(required_languages) ==
    IF required_languages = <<>> THEN <<>>
    ELSE LET lang_req == Head(required_languages)
             name == lang_req.name
             min_level == Upper(IF lang_req.min_level # "" THEN lang_req.min_level
                                ELSE "B2")
             degrees == acceptable_degrees(min_level)
         IN  (IF name # "" /\ degrees # <<>>
              THEN << [f |-> "nested", path |-> "languages", lang |-> name,
                       degrees |-> degrees] >>
              ELSE <<>>)
             \o language_filters(Tail(required_languages))

\* build_hard_filters(...): the filter context list: the four filters that
\* are always built, then one per language requirement.  No request of the
\* model has a required_available_before, and a request written without
\* required_languages has the default of the field, the empty list.
build_hard_filters(req) ==
    << [f |-> "exists", field |-> "location"],
       [f |-> "geo_distance", distance |-> req.radius_km,
        lat |-> req.location_lat, lon |-> req.location_lon],
       [f |-> "range", field |-> "pensum_desired", op |-> "gte",
        value |-> req.pensum_min],
       [f |-> "range", field |-> "pensum_from", op |-> "lte",
        value |-> req.pensum_max] >>
    \o language_filters(IF "required_languages" \in DOMAIN req
                        THEN req.required_languages ELSE <<>>)

(***************************************************************************)
(* The search backend answering es.search(query = script_score over        *)
(* bool.filter, min_score, size).                                          *)
(***************************************************************************)
Abs(x) == IF x < 0 THEN -x ELSE x

\* distance between a document's point and the job's, on the grid of the model
DistanceKm(location, lat, lon) == Abs(location[1] - lat) + Abs(location[2] - lon)

\* does the document satisfy one filter of the bool.filter list
FilterHolds(doc, flt) ==
    CASE flt.f = "exists" -> doc[flt.field] # None
      [] flt.f = "geo_distance" ->
            /\ doc.location # None
            /\ DistanceKm(doc.location, flt.lat, flt.lon) <= flt.distance
      [] flt.f = "range" /\ flt.op = "gte" -> doc[flt.field] >= flt.value
      [] flt.f = "range" /\ flt.op = "lte" -> doc[flt.field] <= flt.value
      [] flt.f = "nested" ->
            /\ flt.path \in DOMAIN doc
            /\ \E i \in 1..Len(doc[flt.path]) :
                  /\ doc[flt.path][i].lang = flt.lang
                  /\ \E k \in 1..Len(flt.degrees) :
                        doc[flt.path][i].degree = flt.degrees[k]

\* raw scores the script can give a document, in hundredths
Scores == {100, 180}

\* The backend during one search: it rejects the request (BadRequestError),
\* fails otherwise, or answers; score is what the script returns for each
\* document and first the document it lists first among equal scores.
Backends ==
    {[kind |-> k, score |-> [id \in PostIds |-> 100], first |-> 1] :
        k \in {"bad_request", "error"}}
    \cup {b \in [kind : {"ok"}, score : [PostIds -> Scores], first : PostIds] :
              b.first = 1 \/ \A id \in PostIds : b.score[id] = b.score[1]}

\* d is listed before e: higher score first
ListedBefore(d, e, beh) ==
    \/ beh.score[d.post_id] > beh.score[e.post_id]
    \/ /\ beh.score[d.post_id] = beh.score[e.post_id]
       /\ (d.post_id = beh.first \/ e.post_id # beh.first)

RECURSIVE RankHits(_, _)
RankHits(docs, beh) ==
    IF docs = {} THEN <<>>
    ELSE LET best == CHOOSE d \in docs : \A e \in docs : ListedBefore(d, e, beh)
         IN  <<best>> \o RankHits(docs \ {best}, beh)

\* es.search(...) when the backend answers: [hits, total]
es_search(index, filters, min_score, size, beh) ==
    LET above == {d \in index :
                    /\ \A j \in 1..Len(filters) : FilterHolds(d, filters[j])
                    /\ beh.score[d.post_id] >= min_score}
        ranked == RankHits(above, beh)
    IN  [hits  |-> SubSeq(ranked, 1, Min(size, Len(ranked))),
         total |-> Cardinality(above)]

(***************************************************************************)
(* api/config.py, api/main.py: the configuration store.  Weights are       *)
(* counted in hundredths, as the scores are.                               *)
(***************************************************************************)
\* a Python dict of dimension weights with the keys of S
WeightMap(S, w) == [d \in S |-> w[d]]

\* DEFAULT_WEIGHTS
DEFAULT_WEIGHTS ==
    [d \in {"title", "industry", "experience", "skills", "seniority", "education"} |->
        CASE d = "title" -> 40
          [] d = "industry" -> 20
          [] d = "experience" -> 15
          [] d = "skills" -> 10
          [] d = "seniority" -> 8
          [] d = "education" -> 7]

\* load_config(): the JSON of the file when it exists, the defaults otherwise
load_config(store) ==
    IF store # {} THEN CHOOSE cfg \in store : TRUE
    ELSE [scoring_weights |-> DEFAULT_WEIGHTS,
          min_score_raw |-> MinScoreRaw,
          max_results |-> DefaultMaxResults]

\* save_config(cfg): the file is rewritten with cfg
save_config(cfg) == {cfg}

\* get_weights()
get_weights(store) == load_config(store).scoring_weights

\* get_min_score_raw()
get_min_score_raw(store) == load_config(store).min_score_raw

\* get_max_results()
get_max_results(store) == load_config(store).max_results

\* {**a, **b}
DictMerge(a, b) ==
    [d \in (DOMAIN a) \cup (DOMAIN b) |-> IF d \in DOMAIN b THEN b[d] ELSE a[d]]

\* an update that stores the supplied weights in place of the map
update_config_replace(u, store) ==
    LET cfg == load_config(store)
        new == [scoring_weights |-> IF u.scoring_weights # None
                                    THEN u.scoring_weights[1]
                                    ELSE cfg.scoring_weights,
                min_score_raw |-> IF u.min_score_raw # None THEN u.min_score_raw[1]
                                  ELSE cfg.min_score_raw,
                max_results |-> IF u.max_results # None THEN u.max_results[1]
                                ELSE cfg.max_results]
    IN  [cfg |-> new, store |-> save_config(new)]

\* update_config(updates): a key that updates does not hold is None in u.
\* [cfg, store]: the configuration returned and the store left behind.
update_config(u, store) ==
    LET cfg == load_config(store)
        new == [scoring_weights |-> IF u.scoring_weights # None
                                    THEN DictMerge(cfg.scoring_weights,
                                                   u.scoring_weights[1])
                                    ELSE cfg.scoring_weights,
                min_score_raw |-> IF u.min_score_raw # None THEN u.min_score_raw[1]
                                  ELSE cfg.min_score_raw,
                max_results |-> IF u.max_results # None THEN u.max_results[1]
                                ELSE cfg.max_results]
    IN  [cfg |-> new, store |-> save_config(new)]

\* GET /api/config
get_config(store) == load_config(store)

\* PATCH /api/config: u holds the fields of updates that are not None
patch_config(updates, store) ==
    IF /\ updates.scoring_weights = None
       /\ updates.min_score_raw = None
       /\ updates.max_results = None
    THEN [cfg |-> get_config(store), store |-> store]
    ELSE update_config(updates, store)

(***************************************************************************)
(* Configuration subsystem: the PATCH requests of an operator.             *)
(***************************************************************************)
\* ConfigUpdate.scoring_weights: None or a dict of some dimensions
WeightUpdates ==
    {None} \cup
    {<<WeightMap(S, [d \in {"title", "language"} |->
                        IF d = "title" THEN t ELSE 10])>> :
        S \in SUBSET {"title", "language"}, t \in {30, 50}}

ConfigUpdates ==
    [scoring_weights : WeightUpdates,
     min_score_raw : {None, <<120>>},
     max_results : {None, <<5>>}]

CfgIdle == [op |-> "none", updates |-> <<>>, cfg |-> <<>>]

CfgInit ==
    /\ cfgStore = {}
    /\ cfgOut = CfgIdle

\* an operator sends PATCH /api/config with a body of bodies
PatchConfigOn(bodies) ==
    /\ cfgOut = CfgIdle
    /\ UNCHANGED <<embVars, titleVars, indexVars, matchVars, ingVars, etlVars, extVars>>
    /\ \E updates \in bodies :
       \E r \in {patch_config(updates, cfgStore)} :
            /\ cfgStore' = r.store
            /\ cfgOut' = [op |-> "patch_config", updates |-> updates, cfg |-> r.cfg]

PatchConfig == PatchConfigOn(ConfigUpdates)

\* the operator takes the answer
ConfigReturn ==
    /\ cfgOut # CfgIdle
    /\ cfgOut' = CfgIdle
    /\ UNCHANGED cfgStore
    /\ UNCHANGED <<embVars, titleVars, indexVars, matchVars, ingVars, etlVars, extVars>>

NextConfig ==
    \/ PatchConfig
    \/ ConfigReturn

(***************************************************************************)
(* api/matching.py                                                         *)
(***************************************************************************)
\* MatchResponse.message is None
NoMessage == "<None>"

\* _zero_vec(): [0.0] * 1536
zero_vec == ZeroVec

\* one line of _job_embeddings:
\* embed_text(field or " ", c) if field else _zero_vec()
JobField(field, prov, st) ==
    IF st.raised THEN st
    ELSE IF field = "" THEN [st EXCEPT !.vecs = Append(@, zero_vec)]
    ELSE LET r == embed_text(field, prov, st.db, st.cache)
         IN  [raised |-> r.raised, err |-> r.err,
              vecs |-> IF r.raised THEN st.vecs ELSE Append(st.vecs, r.out),
              db |-> r.db, cache |-> r.cache, sent |-> st.sent \o r.sent]

\* _job_embeddings(req): title, industry, skills, education, in this order
job_embeddings(req, prov, db, cache) ==
    CHOOSE s4 \in
      {JobField(req.required_education, prov, s3) : s3 \in
        {JobField(req.required_skills, prov, s2) : s2 \in
          {JobField(req.industry, prov, s1) : s1 \in
            {JobField(req.title, prov,
               [raised |-> FALSE, err |-> "", vecs |-> <<>>, db |-> db,
                cache |-> cache, sent |-> <<>>])}}}} : TRUE

\* the seven dimensions of the score
Dimensions ==
    {"title", "industry", "experience", "skills", "seniority", "education",
     "language"}

\* weights.get(d, default) of build_script_score (queries.py)
ScriptDefault ==
    [d \in Dimensions |->
        CASE d = "title" -> 38
          [] d = "industry" -> 19
          [] d = "experience" -> 14
          [] d = "skills" -> 10
          [] d = "seniority" -> 7
          [] d = "education" -> 7
          [] d = "language" -> 5]

\* w.get(d, default) of the breakdown of run_match (matching.py)
BreakdownDefault ==
    [d \in Dimensions |->
        CASE d = "title" -> 38
          [] d = "industry" -> 19
          [] d = "experience" -> 14
          [] d = "skills" -> 10
          [] d = "seniority" -> 7
          [] d = "education" -> 7
          [] d = "language" -> 5]

\* dict.get(key, default)
DictGet(w, key, default) == IF key \in DOMAIN w THEN w[key] ELSE default

\* build_script_score(...)["script"]["params"]: the four job vectors (in the
\* order title, industry, skills, education) and the seven weights
build_script_score(vecs, weights) ==
    [titleVec |-> vecs[1], industryVec |-> vecs[2], skillsVec |-> vecs[3],
     eduVec |-> vecs[4],
     w |-> [d \in Dimensions |-> DictGet(weights, d, ScriptDefault[d])]]

\* the integer square root of a number up to 10000
Isqrt(n) == CHOOSE k \in 0..100 : k * k <= n /\ n < (k + 1) * (k + 1)

\* sum(a[i] * b[i])
Dot(a, b) == SumSeq([i \in 1..Len(a) |-> a[i] * b[i]])

\* cosineSimilarity(query_vector, field) in hundredths, in a one-element
\* tuple; None when a magnitude is 0 and the quotient is not defined
cosineSimilarity(q, v) ==
    IF SumSquares(q) = 0 \/ SumSquares(v) = 0 THEN None
    ELSE LET c == Isqrt((10000 * Dot(q, v) * Dot(q, v))
                            \div (SumSquares(q) * SumSquares(v)))
         IN  <<IF Dot(q, v) < 0 THEN -c ELSE c>>

\* doc[field].size() == 0 ? 1.0 : cosineSimilarity(params.<x>Vec, field) + 1.0
\* with the neutral value
SimTerm(field, q) ==
    IF field = None THEN <<100>>
    ELSE IF cosineSimilarity(q, field) = None THEN None
    ELSE <<cosineSimilarity(q, field)[1] + 100>>

\* titleSim, industrySim, skillsSim, eduSim of the script for one document
ScriptSims(doc, params) ==
    [title    |-> SimTerm(doc.aggregated_title_embedding, params.titleVec),
     industry |-> SimTerm(doc.aggregated_industry_embedding, params.industryVec),
     skills   |-> SimTerm(doc.skills_embedding, params.skillsVec),
     education |-> SimTerm(doc.education_embedding, params.eduVec)]

\* total_norm without the clamp
TotalNormUnclamped(score_raw) == score_raw * 5

\* total_norm = min(100.0, max(0.0, (score_raw / 2.0) * 100.0)), in tenths of
\* a point: a score of 1.55 (155 hundredths) gives 77.5 (775 tenths)
TotalNorm(score_raw) == Min(1000, Max(0, score_raw * 5))

\* round(x, 1) of a value x given in thousandths; the result is in tenths
Round1(x) ==
    LET q == x \div 100
        r == x % 100
    IN  IF r > 50 \/ (r = 50 /\ q % 2 = 1) THEN q + 1 ELSE q

\* ScoreBreakdown(total = round(total_norm, 1),
\*                <d>_score = round(total_norm * w.get(d, default), 1), ...)
ScoreBreakdown(total_norm, w) ==
    [total |-> Round1(total_norm * 100),
     dims  |-> [d \in Dimensions |->
                  Round1(total_norm * DictGet(w, d, BreakdownDefault[d]))]]

\* the matches built from the hits of the response
Matches(hits, beh, weights) ==
    [i \in 1..Len(hits) |->
        [post_id |-> hits[i].post_id,
         rank |-> i,
         score |-> ScoreBreakdown(TotalNorm(beh.score[hits[i].post_id]), weights),
         pensum_desired |-> hits[i].pensum_desired,
         pensum_from |-> hits[i].pensum_from]]

\* the threshold with the configured value in front of the override
EffectiveMinScoreConfigFirst(req, min_score_override, store) ==
    get_min_score_raw(store)

\* min_score = min_score_override if min_score_override is not None
\*             else get_min_score_raw()
\* effective_min_score = req.min_score if req.min_score is not None else min_score
EffectiveMinScore(req, min_score_override, store) ==
    LET min_score == IF min_score_override # None THEN min_score_override[1]
                     ELSE get_min_score_raw(store)
    IN  IF req.min_score # None THEN req.min_score[1] ELSE min_score

\* run_match after _job_embeddings has left emb: the filters, the search in
\* its try block and the response.  min_score is the value handed to
\* es.search (None when no search was made).
MatchResponse(req, min_score_override, store, emb, beh, index) ==
    LET filters == build_hard_filters(req)
        min_score == EffectiveMinScore(req, min_score_override, store)
        max_results == IF req.max_results # 0 THEN req.max_results
                       ELSE get_max_results(store)
        weights == get_weights(store)
        params == IF emb.raised THEN None
                  ELSE build_script_score(emb.vecs, weights)
    IN  IF emb.raised
        \* _job_embeddings is called outside the try block
        THEN [raised |-> TRUE, err |-> emb.err, matches |-> <<>>,
              message |-> NoMessage, total |-> 0, filters |-> <<>>, searches |-> 0,
              min_score |-> None, params |-> params, hits |-> <<>>, sims |-> <<>>,
              db |-> emb.db, cache |-> emb.cache, sent |-> emb.sent]
        ELSE IF beh.kind # "ok"
        THEN [raised |-> FALSE, err |-> "", matches |-> <<>>,
              message |-> "Search failed", total |-> 0, filters |-> filters,
              searches |-> 1, min_score |-> <<min_score>>, params |-> params,
              hits |-> <<>>, sims |-> <<>>,
              db |-> emb.db, cache |-> emb.cache, sent |-> emb.sent]
        ELSE CHOOSE r \in
               {[raised |-> FALSE, err |-> "",
                 matches |-> Matches(resp.hits, beh, weights),
                 message |-> IF resp.hits = <<>>
                             THEN "No qualified candidates found above threshold."
                             ELSE NoMessage,
                 total |-> resp.total, filters |-> filters, searches |-> 1,
                 min_score |-> <<min_score>>, params |-> params,
                 hits |-> resp.hits,
                 sims |-> [i \in 1..Len(resp.hits) |->
                             ScriptSims(resp.hits[i], params)],
                 db |-> emb.db, cache |-> emb.cache, sent |-> emb.sent] :
                  resp \in {es_search(index, filters, min_score, max_results, beh)}} :
               TRUE

\* run_match(req, es, min_score_override): [raised, err, matches, message,
\* total, filters, searches, min_score, params, hits, sims, db, cache, sent];
\* searches counts the es.search calls made, hits are the documents of the
\* response and sims[i] the similarity terms the script computed for hits[i].  The configuration is read from store when the
\* call starts.  The script of build_script_score is evaluated by the
\* backend: beh.score.
run_match(req, min_score_override, store, prov, beh, db, cache, index) ==
    CHOOSE r \in {MatchResponse(req, min_score_override, store, emb, beh, index) :
                    emb \in {job_embeddings(req, prov, db, cache)}} : TRUE

(***************************************************************************)
(* Match subsystem: the index is filled by bulk_index_candidates and       *)
(* queried by run_match.                                                   *)
(***************************************************************************)
\* pensum_min, pensum_max of a job
JobPensums == {<<0, 100>>, <<60, 100>>, <<0, 40>>}

Requests ==
    {[title |-> t, industry |-> ind, required_skills |-> "",
      required_education |-> "",
      location_lat |-> 0, location_lon |-> 8, radius_km |-> 50,
      pensum_min |-> p[1], pensum_max |-> p[2],
      min_score |-> ms, max_results |-> mr] :
        t \in {"", " ", "a"}, ind \in {"", "b"}, p \in JobPensums,
        ms \in {None, <<100>>}, mr \in {1, 20}}

MatchIdle == [op |-> "none", req |-> <<>>, raised |-> FALSE, err |-> "",
              matches |-> <<>>, message |-> NoMessage, total |-> 0,
              filters |-> <<>>, searches |-> 0, sent |-> <<>>,
              provider_raise |-> FALSE, kind |-> "", score |-> <<>>,
              min_score_override |-> None, min_score |-> None, params |-> None,
              hits |-> <<>>, sims |-> <<>>]

MatchInit == matchOut = MatchIdle

\* a caller runs run_match(req, min_score_override = override) with a request
\* of reqs, against a provider of provs and a backend of backends
RunMatchOn(reqs, overrides, provs, backends) ==
    /\ matchOut = MatchIdle
    /\ idxOut.op = "none"
    /\ UNCHANGED <<embOut, firstVec, titleVars, indexVars, ingVars>>
    /\ UNCHANGED <<cfgVars, etlVars, extVars>>
    /\ \E req \in reqs, override \in overrides, prov \in provs, beh \in backends :
       \E r \in {run_match(req, override, cfgStore, prov, beh, embDb, embCache,
                           esIndex)} :
            /\ embDb' = r.db
            /\ embCache' = r.cache
            /\ matchOut' = [op |-> "run_match", req |-> req, raised |-> r.raised,
                            err |-> r.err, matches |-> r.matches,
                            message |-> r.message, total |-> r.total,
                            filters |-> r.filters, searches |-> r.searches,
                            sent |-> r.sent, provider_raise |-> prov.raise,
                            kind |-> beh.kind, score |-> beh.score,
                            min_score_override |-> override,
                            min_score |-> r.min_score, params |-> r.params,
                            hits |-> r.hits, sims |-> r.sims]

\* POST /api/match: run_match(req)
RunMatch == RunMatchOn(Requests, {None}, Providers, Backends)

\* the caller takes the MatchResponse (or the exception)
MatchReturn ==
    /\ matchOut # MatchIdle
    /\ matchOut' = MatchIdle
    /\ UNCHANGED <<embVars, titleVars, indexVars, ingVars>>
    /\ UNCHANGED <<cfgVars, etlVars, extVars>>

NextMatch ==
    \/ BulkIndexCandidates
    \/ IndexReturn
    \/ RunMatch
    \/ MatchReturn

(***************************************************************************)
(* Scoring subsystem: two located candidates are indexed, an operator      *)
(* changes the weights and the threshold, and jobs are matched with and    *)
(* without a threshold of their own while the backend computes any score.  *)
(***************************************************************************)
\* script scores in hundredths: below 0, between the thresholds, above 2.0
RawScores == {-50, 110, 137, 250}

ScoreCandidates ==
    [id \in PostIds |->
        CHOOSE c \in Candidates :
            /\ c.post_id = id /\ c.lat # None /\ c.lon # None
            /\ c.pensum_desired = 100
            /\ c.aggregated_title_embedding = Embedding("b")]

ScoreRequests ==
    {r \in Requests : /\ r.title = "a" /\ r.industry = "" /\ r.max_results = 20
                      /\ r.pensum_min = 0 /\ r.pensum_max = 100}

ScoreOverrides == {None, <<-100>>}

ScoreProviders == {prov \in Providers : ~prov.raise /\ prov.vecs["a"] # Missing}

ScoreBackends == [kind : {"ok"}, score : [PostIds -> RawScores], first : {1}]

ScoreBodies ==
    {u \in ConfigUpdates :
        /\ u.max_results = None
        /\ \/ u.scoring_weights = None /\ u.min_score_raw # None
           \/ /\ u.scoring_weights # None /\ u.min_score_raw = None
              /\ u.scoring_weights[1] \in {WeightMap({"title"}, [d \in {"title"} |-> 30]),
                                           WeightMap({"language"}, [d \in {"language"} |-> 10])}}

IndexScoreCandidates == BulkIndexOn({ScoreCandidates}, {{}})

PatchScoring == PatchConfigOn(ScoreBodies)

RunMatchScored ==
    RunMatchOn(ScoreRequests, ScoreOverrides, ScoreProviders, ScoreBackends)

NextScore ==
    \/ IndexScoreCandidates
    \/ IndexReturn
    \/ PatchScoring
    \/ ConfigReturn
    \/ RunMatchScored
    \/ MatchReturn

(***************************************************************************)
(* etl/experience_scorer.py, embeddings/generator.py: enrichment of one    *)
(* candidate.  A work-history entry is [raw_title, industry,               *)
(* years_in_role, end_year].  Weights are counted in ten-thousandths.      *)
(***************************************************************************)
CURRENT_YEAR == 2026

\* the weight 1.0
WeightScale == 10000

\* base ** n for a base given in ten-thousandths
RECURSIVE Power(_, _)
Power(base, n) ==
    IF n <= 0 THEN WeightScale ELSE (Power(base, n - 1) * base) \div WeightScale

\* the decay with the factor of the second branch in the third
recency_weight_late_080(end_year) ==
    LET years_ago == CURRENT_YEAR - end_year
    IN  IF years_ago <= 0 THEN WeightScale
        ELSE IF years_ago <= 5 THEN WeightScale - years_ago * 400
        ELSE IF years_ago <= 15
             THEN (8000 * Power(9300, years_ago - 5)) \div WeightScale
             ELSE (8000 * Power(8500, years_ago - 15)) \div WeightScale

\* recency_weight(end_year)
recency_weight(end_year) ==
    LET years_ago == CURRENT_YEAR - end_year
    IN  IF years_ago <= 0 THEN WeightScale
        ELSE IF years_ago <= 5 THEN WeightScale - years_ago * 400
        ELSE IF years_ago <= 15
             THEN (8000 * Power(9300, years_ago - 5)) \div WeightScale
             ELSE (4000 * Power(8500, years_ago - 15)) \div WeightScale

\* the expression of the second branch, 0.80 * (0.93 ** (years_ago - 5))
MidPiece(years_ago) == (8000 * Power(9300, years_ago - 5)) \div WeightScale

\* the expression of the third branch, 0.40 * (0.85 ** (years_ago - 15))
LatePiece(years_ago) == (4000 * Power(8500, years_ago - 15)) \div WeightScale

\* the tolerance 0.01 of the tests of recency_weight
Tolerance == 100

\* apply_experience_scoring: weighted_years = max(1, years_in_role) * rw
weighted_years(exp) == Max(1, exp.years_in_role) * recency_weight(exp.end_year)

\* apply_experience_scoring: aggregated_industry_parts, from entry i on
RECURSIVE IndustryParts(_, _)
IndustryParts(exps, i) ==
    IF i > Len(exps) THEN <<>>
    ELSE IF Strip(exps[i].industry) # ""
         THEN << <<Strip(exps[i].industry), weighted_years(exps[i])>> >>
                \o IndustryParts(exps, i + 1)
         ELSE IndustryParts(exps, i + 1)

\* parse_work_experiences: the entry built from the years of a raw entry
\* (entries without a positive start or end year are dropped before)
ParsedEntry(start_year, end_year, industry) ==
    [industry |-> industry, start_year |-> start_year, end_year |-> end_year,
     years_in_role |-> Max(1, end_year - start_year)]

\* apply_experience_scoring: every entry gets recency_weight and
\* weighted_years and keeps its other fields; the candidate gets the total
\* and the industry parts
apply_experience_scoring(exps) ==
    [work_experiences |->
        [i \in 1..Len(exps) |->
            [recency_weight |-> recency_weight(exps[i].end_year),
             weighted_years |-> weighted_years(exps[i])] @@ exps[i]],
     total_weighted_relevant_years |->
        SumSeq([i \in 1..Len(exps) |-> weighted_years(exps[i])]),
     aggregated_industry_parts |-> IndustryParts(exps, 1)]

\* w = float(exp.get("recency_weight", 1.0)) * float(exp.get("years_in_role", 1))
TitleWeight(exp) == recency_weight(exp.end_year) * exp.years_in_role

\* title_items: (standardized or raw title, w) of the entries whose title is
\* neither blank nor 'NONE', from entry i on
RECURSIVE StdTitleItems(_, _, _)
StdTitleItems(exps, std, i) ==
    IF i > Len(exps) THEN <<>>
    ELSE LET t == Strip(IF std[i] # "" THEN std[i] ELSE exps[i].raw_title)
         IN  IF t # "" /\ t # "NONE"
             THEN << <<t, TitleWeight(exps[i])>> >> \o StdTitleItems(exps, std, i + 1)
             ELSE StdTitleItems(exps, std, i + 1)

\* the second loop: the raw titles when every standardized title was 'NONE'
RECURSIVE RawTitleItems(_, _)
RawTitleItems(exps, i) ==
    IF i > Len(exps) THEN <<>>
    ELSE IF Strip(exps[i].raw_title) # ""
         THEN << <<Strip(exps[i].raw_title), TitleWeight(exps[i])>> >>
                \o RawTitleItems(exps, i + 1)
         ELSE RawTitleItems(exps, i + 1)

\* the title items without the first loop
TitleItemsRawOnly(exps, std) == RawTitleItems(exps, 1)

\* title_items after the two loops
TitleItems(exps, std) ==
    IF StdTitleItems(exps, std, 1) # <<>> THEN StdTitleItems(exps, std, 1)
    ELSE RawTitleItems(exps, 1)

\* (candidate.get("skills_text") or "").strip()[:500] or "Professional"
FallbackText(c) ==
    IF Strip(c.skills_text) # "" THEN Strip(c.skills_text) ELSE "Professional"

\* the enrichment after one more embedding call r has returned or raised
AfterCall(st, r) ==
    [raised |-> r.raised, err |-> r.err, db |-> r.db, cache |-> r.cache,
     sent |-> st.sent \o r.sent,
     vecs |-> IF r.raised THEN st.vecs ELSE Append(st.vecs, r.out),
     title_fn |-> st.title_fn, title_items |-> st.title_items,
     title_text |-> st.title_text]

\* the enrichment when the field is set to None without a call
NoCall(st) == [st EXCEPT !.vecs = Append(@, None)]

\* candidate["aggregated_title_embedding"] = weighted_mean_embedding(title_items)
TitleStep(items, prov, st) ==
    IF items # <<>>
    THEN AfterCall([st EXCEPT !.title_fn = "weighted_mean_embedding",
                              !.title_items = items],
                   weighted_mean_embedding(items, prov, st.db, st.cache))
    ELSE NoCall(st)

\* the fallback when there is no title vector: embed_text(fallback_text)
FallbackStep(c, prov, st) ==
    IF st.raised \/ st.vecs[1] # None THEN st
    ELSE AfterCall([st EXCEPT !.vecs = <<>>, !.title_fn = "embed_text",
                              !.title_items = <<>>,
                              !.title_text = FallbackText(c)],
                   embed_text(FallbackText(c), prov, st.db, st.cache))

\* candidate["aggregated_industry_embedding"]: the industry items are empty
\* exactly when aggregated_industry_parts is
IndustryStep(parts, prov, st) ==
    IF st.raised THEN st
    ELSE IF parts # <<>>
    THEN AfterCall(st, weighted_mean_embedding(parts, prov, st.db, st.cache))
    ELSE NoCall(st)

\* skills_embedding, education_embedding: embed_text of the stripped text
TextStep(text, prov, st) ==
    IF st.raised THEN st
    ELSE IF Strip(text) # ""
    THEN AfterCall(st, embed_text(Strip(text), prov, st.db, st.cache))
    ELSE NoCall(st)

\* the last lines: None becomes [0.0] * DIMS for industry, skills, education
ZeroDefaults(st) ==
    IF st.raised THEN st
    ELSE [st EXCEPT !.vecs = [i \in 1..Len(@) |->
                                IF i > 1 /\ @[i] = None THEN ZeroVec ELSE @[i]]]

\* add_embeddings_to_candidate(candidate, client) on a candidate whose
\* entries have the standardized titles std: [raised, err, db, cache, sent,
\* vecs, title_fn, title_items, title_text]; vecs = <<title, industry,
\* skills, education>>; title_fn is the function whose result is the title
\* vector and title_items or title_text the argument it was given
add_embeddings_to_candidate(c, std, prov, db, cache) ==
    CHOOSE s6 \in
      {ZeroDefaults(s5) : s5 \in
        {TextStep(c.education_text, prov, s4) : s4 \in
          {TextStep(c.skills_text, prov, s3) : s3 \in
            {IndustryStep(IndustryParts(c.work_experiences, 1), prov, s2) : s2 \in
              {FallbackStep(c, prov, s1) : s1 \in
                {TitleStep(TitleItems(c.work_experiences, std), prov,
                   [raised |-> FALSE, err |-> "", db |-> db, cache |-> cache,
                    sent |-> <<>>, vecs |-> <<>>, title_fn |-> "",
                    title_items |-> <<>>, title_text |-> ""])}}}}}} : TRUE

(***************************************************************************)
(* scripts/initial_load.py main: the loop over the batches of raw           *)
(* candidates.  The table holds one post per id of PostIds, read in the     *)
(* order of the ids.                                                        *)
(***************************************************************************)
total_raw == Cardinality(PostIds)

\* entries as parse_work_experiences leaves them: years_in_role >= 1
ExpShapes ==
    {[raw_title |-> "a", industry |-> "b", years_in_role |-> 1,
      end_year |-> CURRENT_YEAR],
     [raw_title |-> "b", industry |-> "", years_in_role |-> 2,
      end_year |-> CURRENT_YEAR - 10],
     [raw_title |-> "", industry |-> "", years_in_role |-> 1,
      end_year |-> CURRENT_YEAR]}

\* work histories of up to MaxExp entries, no two of them alike
WorkHistories ==
    UNION {{h \in [1..n -> ExpShapes] : \A i, j \in 1..n : h[i] = h[j] => i = j} :
              n \in 0..MaxExp}

\* what transform_candidate hands on for the post with this id
Transformed(id) ==
    {[post_id |-> id, lat |-> lat, lon |-> lon,
      pensum_desired |-> 100, pensum_from |-> 0,
      work_experiences |-> exps,
      skills_text |-> txt[1], education_text |-> txt[2]] :
        lat \in {None, <<0>>}, lon \in {<<8>>},
        exps \in WorkHistories,
        txt \in {<<"", "">>, <<"a", "b">>}}

\* the mapping service during the ingestion of one candidate: it treats every
\* batch alike and answers a title with a vocabulary entry or with "NONE"
IngestServices ==
    {svc \in Services :
        /\ \A b \in 1..MaxBatches : svc.kind[b] = svc.kind[1]
        /\ \A t \in TitleKeys : svc.ans[t] \in {"Accountant", "NONE"}
        /\ svc.ans["a"] = "NONE" => svc.ans["b"] = "NONE"
        /\ svc.kind[1] # "ok" => \A t \in TitleKeys : svc.ans[t] = "Accountant"}

IngNone == [post_id |-> 0, raised |-> FALSE, err |-> "", provider_failed |-> FALSE,
            vecs |-> <<>>, kept |-> FALSE, work_experiences |-> <<>>,
            std |-> <<>>, skills_text |-> "", title_fn |-> "",
            title_items |-> <<>>, title_text |-> ""]

IngInit == ing = [pc |-> "loop", i |-> 1, processed |-> <<>>, last |-> IngNone]

\* the enriched candidate as bulk_index_candidates reads it
Enriched(c, vecs) ==
    [post_id |-> c.post_id, lat |-> c.lat, lon |-> c.lon,
     pensum_desired |-> c.pensum_desired, pensum_from |-> c.pensum_from,
     work_experiences |-> c.work_experiences,
     skills_text |-> c.skills_text, education_text |-> c.education_text,
     aggregated_title_embedding |-> vecs[1],
     aggregated_industry_embedding |-> vecs[2],
     skills_embedding |-> vecs[3],
     education_embedding |-> vecs[4]]

\* one pass of "for raw in batch_raw": the try block, its except branch and
\* the test of location and title vector
ProcessCandidate ==
    /\ ing.pc = "loop"
    /\ UNCHANGED <<embOut, firstVec, titleOut, titleSeen, indexVars, matchVars>>
    /\ UNCHANGED <<cfgVars, etlVars, extVars>>
    /\ \E c \in Transformed(ing.i), svc \in IngestServices, prov \in Providers :
       LET raws == [j \in 1..Len(c.work_experiences) |->
                       c.work_experiences[j].raw_title]
       IN
       \E order \in Orderings(RawTitleSet(raws)) :
       \E t \in {apply_standardized_titles(raws, order, svc, titleCache)} :
       \E e \in {IF t.raised
                 THEN [raised |-> TRUE, err |-> "titles", db |-> embDb,
                       cache |-> embCache, sent |-> <<>>, vecs |-> <<>>,
                       title_fn |-> "", title_items |-> <<>>, title_text |-> ""]
                 ELSE add_embeddings_to_candidate(c, t.std, prov, embDb, embCache)} :
            /\ titleCache' = t.cache
            /\ embDb' = e.db
            /\ embCache' = e.cache
            /\ LET keep == /\ ~e.raised
                           /\ c.lat # None /\ c.lon # None
                           /\ e.vecs[1] # None
               IN  ing' = [pc |-> IF ing.i % LoadBatchSize = 0 \/ ing.i = total_raw
                                  THEN "index" ELSE "loop",
                           i |-> ing.i + 1,
                           processed |-> IF keep
                                         THEN Append(ing.processed, Enriched(c, e.vecs))
                                         ELSE ing.processed,
                           last |-> [post_id |-> c.post_id, raised |-> e.raised,
                                     err |-> e.err,
                                     provider_failed |-> prov.raise /\ e.sent # <<>>,
                                     vecs |-> e.vecs, kept |-> keep,
                                     work_experiences |-> c.work_experiences,
                                     std |-> IF t.raised THEN <<>> ELSE t.std,
                                     skills_text |-> c.skills_text,
                                     title_fn |-> e.title_fn,
                                     title_items |-> e.title_items,
                                     title_text |-> e.title_text]]

\* the end of a batch: "if processed_batch: bulk_index_candidates(...)"
IndexBatch ==
    /\ ing.pc = "index"
    /\ UNCHANGED <<embVars, titleVars, idxOut, matchVars>>
    /\ UNCHANGED <<cfgVars, etlVars, extVars>>
    /\ \E rejected \in {{}, {1}} :
       \E r \in {bulk_index_candidates(ing.processed, rejected, esIndex)} :
            /\ esIndex' = r.index
            /\ ing' = [ing EXCEPT !.pc = IF ing.i > total_raw THEN "done" ELSE "loop",
                                  !.processed = <<>>]

NextIngest ==
    \/ ProcessCandidate
    \/ IndexBatch

(***************************************************************************)
(* Pipeline: the initial load runs to its end, then jobs are matched       *)
(* against the index it has filled.                                        *)
(***************************************************************************)
PipelineRequests ==
    {[title |-> "a", industry |-> ind, required_skills |-> sk,
      required_education |-> "",
      location_lat |-> 0, location_lon |-> 8, radius_km |-> 50,
      pensum_min |-> 0, pensum_max |-> 100,
      min_score |-> None, max_results |-> 20] :
        ind \in {"", "b"}, sk \in {"", "a"}}

PipelineBackends == {beh \in Backends : beh.kind = "ok" /\ beh.first = 1
                                         /\ \A id \in PostIds : beh.score[id] = 180}

RunMatchAfterLoad ==
    /\ ing.pc = "done"
    /\ RunMatchOn(PipelineRequests, {None}, ScoreProviders, PipelineBackends)

NextPipeline ==
    \/ ProcessCandidate
    \/ IndexBatch
    \/ RunMatchAfterLoad
    \/ MatchReturn

(***************************************************************************)
(* etl/transformer.py: seniority.  A title is the sequence of its words    *)
(* (the maximal runs of word characters, in order, separated by single     *)
(* blanks); a keyword is the sequence of the words of kw.strip().  The     *)
(* pattern \b kw \b is found in a title exactly when the words of the      *)
(* keyword are consecutive words of the title.                             *)
(***************************************************************************)
SENIORITY_LEVELS == <<"junior", "mid", "senior", "manager", "director", "executive">>

SENIORITY_KEYWORDS ==
    [level \in {SENIORITY_LEVELS[i] : i \in 1..Len(SENIORITY_LEVELS)} |->
        CASE level = "junior" ->
               {<<"junior">>, <<"assistant">>, <<"trainee">>, <<"praktikant">>,
                <<"azubi">>, <<"ausbildung">>}
          [] level = "mid" ->
               {<<"sachbearbeiter">>, <<"specialist">>, <<"coordinator">>,
                <<"fachmann">>, <<"fachfrau">>, <<"mitarbeiter">>}
          [] level = "senior" ->
               {<<"senior">>, <<"lead">>, <<"expert">>, <<"principal">>,
                <<"fachexperte">>, <<"erfahren">>}
          [] level = "manager" ->
               {<<"manager">>, <<"leiter">>, <<"head", "of">>, <<"abteilungsleiter">>,
                <<"teamleiter">>, <<"team", "lead">>}
          [] level = "director" ->
               {<<"director">>, <<"vp">>, <<"vice", "president">>, <<"bereichsleiter">>}
          [] level = "executive" ->
               {<<"ceo">>, <<"cfo">>, <<"cto">>, <<"coo">>, <<"geschäftsführer">>,
                <<"vorsitzender">>, <<"präsident">>, <<"president">>}]

\* str.lower() on one word
LowerWord(w) ==
    CASE w = "Junior" -> "junior"
      [] w = "Senior" -> "senior"
      [] w = "CFO"    -> "cfo"
      [] w = "Head"   -> "head"
      [] w = "IT"          -> "it"
      [] w = "Hospitality" -> "hospitality"
      [] w = "Finance"     -> "finance"
      [] w = "Industry"    -> "industry"
      [] w = "Analyst"     -> "analyst"
      [] OTHER        -> w

\* str.lower() on a title
Lower(title) == [i \in 1..Len(title) |-> LowerWord(title[i])]

\* re.search(r"\b" + re.escape(kw.strip()) + r"\b", title)
Search(kw, title) ==
    \E i \in 1..(Len(title) - Len(kw) + 1) :
        \A j \in 1..Len(kw) : title[i + j - 1] = kw[j]

\* the scan of the levels from the least senior one, level i first
RECURSIVE ScanUp(_, _)
ScanUp(title, i) ==
    IF i > Len(SENIORITY_LEVELS) THEN "mid"
    ELSE IF \E kw \in SENIORITY_KEYWORDS[SENIORITY_LEVELS[i]] : Search(kw, title)
         THEN SENIORITY_LEVELS[i]
         ELSE ScanUp(title, i + 1)

\* the classifier scanning junior first
match_seniority_junior_first(title) == ScanUp(title, 1)

\* for level in reversed(SENIORITY_LEVELS): ... return level; from level i down
RECURSIVE ScanDown(_, _)
ScanDown(title, i) ==
    IF i < 1 THEN "mid"
    ELSE IF \E kw \in SENIORITY_KEYWORDS[SENIORITY_LEVELS[i]] : Search(kw, title)
         THEN SENIORITY_LEVELS[i]
         ELSE ScanDown(title, i - 1)

\* _match_seniority(title)
match_seniority(title) == ScanDown(title, Len(SENIORITY_LEVELS))

\* the inference from the oldest (last) entry
infer_seniority_last_entry(work_experiences) ==
    IF work_experiences = <<>> THEN "mid"
    ELSE LET title == Lower(work_experiences[Len(work_experiences)].raw_title)
         IN  IF title = <<>> THEN "mid" ELSE match_seniority(title)

\* infer_seniority(work_experiences)
infer_seniority(work_experiences) ==
    IF work_experiences = <<>> THEN "mid"
    ELSE LET title == Lower(work_experiences[1].raw_title)
         IN  IF title = <<>> THEN "mid" ELSE match_seniority(title)

\* _infer_seniority_from_title(title)
infer_seniority_from_title(title) ==
    IF title # <<>> THEN match_seniority(Lower(title)) ELSE "senior"

\* str.strip().lower() on the values of the seniority meta field
StripLower(s) ==
    CASE s = " Senior "  -> "senior"
      [] s = "Executive" -> "executive"
      [] OTHER           -> s

\* transform_job(raw)["seniority"]: the meta field (or "") and post_title
transform_job_seniority(field, post_title) ==
    LET raw_seniority == StripLower(field)
    IN  IF \E i \in 1..Len(SENIORITY_LEVELS) : SENIORITY_LEVELS[i] = raw_seniority
        THEN raw_seniority
        ELSE infer_seniority_from_title(post_title)

(***************************************************************************)
(* ETL subsystem: calls of the pure functions of etl/transformer.py and    *)
(* etl/experience_scorer.py, one after the other.                          *)
(***************************************************************************)
\* longest title, in words
MaxWords == 2

\* years before and after CURRENT_YEAR that end_year ranges over
MaxYearsAgo == 30
MaxYearsAhead == 2

Words ==
    {"Junior", "specialist", "Senior", "manager", "Head", "of", "vice",
     "president", "CFO", "accountant"}

Titles == UNION {[1..n -> Words] : n \in 0..MaxWords}

\* titles of the entries of a work history: the first one any title of at
\* most one word, the later ones of LaterTitles
FirstTitles == {t \in Titles : Len(t) <= 1}
LaterTitles == {<<>>, <<"Junior">>, <<"CFO">>}

SeniorityHistories ==
    {<<>>} \cup
    UNION {{h \in [1..n -> [raw_title : FirstTitles]] :
              \A i \in 2..n : h[i].raw_title \in LaterTitles} : n \in 1..MaxExp}

SeniorityFields == {"", " Senior ", "Executive", "expert"}

EndYears == (CURRENT_YEAR - MaxYearsAgo)..(CURRENT_YEAR + MaxYearsAhead)

\* a caller classifies a lowercased title
MatchSeniority ==
    /\ \E t \in Titles :
          etlOut' = [op |-> "match_seniority", title |-> Lower(t),
                     result |-> match_seniority(Lower(t))]
    /\ UNCHANGED <<embVars, titleVars, indexVars, matchVars, ingVars, cfgVars, extVars>>

\* a caller classifies a title that is exactly one keyword of the table
MatchKeyword ==
    /\ \E level \in DOMAIN SENIORITY_KEYWORDS :
       \E kw \in SENIORITY_KEYWORDS[level] :
          etlOut' = [op |-> "match_seniority", title |-> kw,
                     result |-> match_seniority(kw)]
    /\ UNCHANGED <<embVars, titleVars, indexVars, matchVars, ingVars, cfgVars, extVars>>

\* transform_candidate infers the seniority of a candidate
InferSeniority ==
    /\ \E h \in SeniorityHistories :
          etlOut' = [op |-> "infer_seniority", work_experiences |-> h,
                     result |-> infer_seniority(h)]
    /\ UNCHANGED <<embVars, titleVars, indexVars, matchVars, ingVars, cfgVars, extVars>>

\* transform_job sets the seniority of a job
TransformJob ==
    /\ \E field \in SeniorityFields, t \in FirstTitles :
          etlOut' = [op |-> "transform_job", field |-> field, post_title |-> t,
                     result |-> transform_job_seniority(field, t)]
    /\ UNCHANGED <<embVars, titleVars, indexVars, matchVars, ingVars, cfgVars, extVars>>

\* apply_experience_scoring weighs one entry
RecencyWeight ==
    /\ \E end_year \in EndYears :
          etlOut' = [op |-> "recency_weight", end_year |-> end_year,
                     result |-> recency_weight(end_year)]
    /\ UNCHANGED <<embVars, titleVars, indexVars, matchVars, ingVars, cfgVars, extVars>>

\* a raw meta value: Python None, a str or an int (written as its digits)
PyNone == [type |-> "none", v |-> ""]
StrVal(text) == [type |-> "str", v |-> text]
IntVal(digits) == [type |-> "int", v |-> digits]

\* bool(x) of a raw value
Truthy(x) ==
    \/ x.type = "str" /\ x.v # ""
    \/ x.type = "int" /\ x.v # "0"

\* the texts int() and float() accept, and their values
NumberTexts == {"0", "7", "8"}
NumOf(text) == CASE text = "0" -> 0 [] text = "7" -> 7 [] text = "8" -> 8

\* float(x) of a truthy raw value: [raised, value]
Float(x) ==
    IF x.type = "int" \/ Strip(x.v) \in NumberTexts
    THEN [raised |-> FALSE, value |-> <<NumOf(Strip(x.v))>>]
    ELSE [raised |-> TRUE, value |-> None]

\* _safe_int(s, default)
safe_int(x, default) ==
    IF x.type = "none" THEN default
    ELSE IF x.type = "int" THEN NumOf(x.v)
    ELSE IF Strip(x.v) \in NumberTexts THEN NumOf(Strip(x.v)) ELSE default

\* the date texts _parse_available_from recognises
DateTexts == {"2026-01-01"}

\* _parse_available_from(meta_value); "<None>" is Python None
parse_available_from(x) ==
    IF ~Truthy(x) \/ x.type # "str" THEN "<None>"
    ELSE IF Strip(x.v) = "" THEN "<None>"
    ELSE IF Strip(x.v) \in DateTexts THEN Strip(x.v) ELSE "<None>"

\* lat_f, lon_f of transform_candidate: one try block around both float()
\* calls, the handler sets both to None
LatLon(lat, lon) ==
    LET flat == IF Truthy(lat) THEN Float(lat) ELSE [raised |-> FALSE, value |-> None]
        flon == IF Truthy(lon) THEN Float(lon) ELSE [raised |-> FALSE, value |-> None]
    IN  IF flat.raised \/ flon.raised THEN <<None, None>>
        ELSE <<flat.value, flon.value>>

\* (meta.get(key) or "").strip(): [raised, value]; an int has no strip()
OrEmptyStrip(x) ==
    IF ~Truthy(x) THEN [raised |-> FALSE, value |-> ""]
    ELSE IF x.type = "str" THEN [raised |-> FALSE, value |-> Strip(x.v)]
    ELSE [raised |-> TRUE, value |-> ""]

\* the meta fields of the model, named as in the normalized record
MetaFields == {"lat", "lon", "pensum_desired", "phone", "available_from"}

\* transform_candidate on the meta fields of the model: [raised, err, doc]
transform_candidate(meta) ==
    LET ll    == LatLon(meta["lat"], meta["lon"])
        phone == OrEmptyStrip(meta["phone"])
    IN  IF phone.raised
        THEN [raised |-> TRUE, err |-> "AttributeError", doc |-> <<>>]
        ELSE [raised |-> FALSE, err |-> "",
              doc |-> [lat |-> ll[1], lon |-> ll[2],
                       pensum_desired |-> safe_int(meta["pensum_desired"], 100),
                       phone |-> phone.value,
                       available_from |-> parse_available_from(meta["available_from"])]]

\* raw records: per meta field the values the extractor or a caller hands in
RawMetas ==
    [lat : {PyNone, StrVal("8"), StrVal("x")},
     lon : {PyNone, StrVal("8"), StrVal("x")},
     pensum_desired : {PyNone, StrVal("8"), StrVal("x")},
     phone : {PyNone, StrVal(" a"), IntVal("7")},
     available_from : {PyNone, StrVal("2026-01-01"), StrVal("x")}]

\* the load loop normalizes one raw candidate
TransformCandidate ==
    /\ etlOut.op = "none"
    /\ \E meta \in RawMetas :
          etlOut' = [op |-> "transform_candidate", meta |-> meta,
                     result |-> transform_candidate(meta)]
    /\ UNCHANGED <<embVars, titleVars, indexVars, matchVars, ingVars, cfgVars, extVars>>

\* the years of the raw entries: a role of three years that is ongoing, one
\* whose end year precedes its start year, one that ended 15 years ago
RawYears ==
    {<<CURRENT_YEAR - 3, CURRENT_YEAR>>, <<CURRENT_YEAR, CURRENT_YEAR - 6>>,
     <<CURRENT_YEAR - 16, CURRENT_YEAR - 15>>}

\* entries handed to apply_experience_scoring: those parse_work_experiences
\* builds, and entries of a candidate file whose years_in_role is 0
ScoringEntries ==
    {ParsedEntry(y[1], y[2], ind) : y \in RawYears, ind \in {"", " ", "b"}}
    \cup {[industry |-> ind, start_year |-> CURRENT_YEAR,
            end_year |-> CURRENT_YEAR, years_in_role |-> 0] : ind \in {"", "b"}}

ScoringHistories == UNION {[1..n -> ScoringEntries] : n \in 0..MaxExp}

\* the load loop or a test scores the work history of a candidate
ApplyExperienceScoring ==
    /\ etlOut.op = "none"
    /\ \E h \in ScoringHistories :
          etlOut' = [op |-> "apply_experience_scoring", input |-> h,
                     result |-> apply_experience_scoring(h)]
    /\ UNCHANGED <<embVars, titleVars, indexVars, matchVars, ingVars, cfgVars, extVars>>

NextEtl ==
    \/ MatchSeniority
    \/ MatchKeyword
    \/ InferSeniority
    \/ TransformJob
    \/ RecencyWeight
    \/ ApplyExperienceScoring
    \/ TransformCandidate

(***************************************************************************)
(* api/matching.py: _build_rank_explanation.  A text is a sequence of      *)
(* words; a bullet is [kind, text, list]: kind is the fixed beginning of   *)
(* the line, text the title or industry that follows it, list the          *)
(* industries of the generic industry line.                                *)
(***************************************************************************)
Bullet(kind, text) == [kind |-> kind, text |-> text, list |-> <<>>]

\* set(text.lower().split())
WordSet(text) == {LowerWord(text[i]) : i \in 1..Len(text)}

\* `w in word` for two lowercased words of the model
PartOfWord(w, word) == w = word \/ (w = "it" /\ word = "hospitality")

\* `w in text` for a word w and a lowercased text: str.__contains__
InText(w, text) == \E i \in 1..Len(text) : PartOfWord(w, text[i])

\* `"Industry" in b` for a bullet b
HasIndustry(b) ==
    \/ b.kind \in {"Industry match", "Industry"}
    \/ \E i \in 1..Len(b.text) : b.text[i] = "Industry"

\* {exp.get("industry") for exp in work_experiences if exp.get("industry")}
IndustrySet(exps) ==
    {exps[i].industry : i \in {j \in 1..Len(exps) : exps[j].industry # <<>>}}

\* the title section: the first entry sharing two words with the job title,
\* else the entry with the most weighted years (the first of them)
TitleBullets(exps, req) ==
    LET hits == {i \in 1..Len(exps) :
                    /\ exps[i].raw_title # <<>>
                    /\ Cardinality(WordSet(req.title) \cap WordSet(exps[i].raw_title)) >= 2}
        first == CHOOSE i \in hits : \A j \in hits : i <= j
        best == CHOOSE i \in 1..Len(exps) :
                    /\ \A j \in 1..Len(exps) : exps[j].weighted_years <= exps[i].weighted_years
                    /\ \A j \in 1..(i - 1) : exps[j].weighted_years < exps[i].weighted_years
        best_title == IF exps[best].standardized_title # <<>>
                      THEN exps[best].standardized_title ELSE exps[best].raw_title
    IN  IF hits # {} THEN <<Bullet("Job title match", exps[first].raw_title)>>
        ELSE IF Len(exps) > 0 /\ best_title # <<>>
             THEN <<Bullet("Most relevant role", best_title)>>
             ELSE <<>>

\* the experience section
ExperienceBullets(years) ==
    IF years > 0 THEN <<Bullet("years of relevant experience", <<>>)>> ELSE <<>>

\* the industry section, appended to the bullets so far
IndustryBullets(bullets, industries, req) ==
    LET top == SubSeq(industries, 1, Min(3, Len(industries)))
        m == {i \in 1..Len(top) :
                 /\ WordSet(req.industry) # {}
                 /\ \E w \in WordSet(req.industry) : InText(w, Lower(top[i]))}
        first == CHOOSE i \in m : \A j \in m : i <= j
        b1 == IF m # {} THEN bullets \o <<Bullet("Industry match", top[first])>>
              ELSE bullets
    IN  IF (\A i \in 1..Len(b1) : ~HasIndustry(b1[i])) /\ Len(industries) > 0
        THEN b1 \o <<[kind |-> "Industry", text |-> <<>>, list |-> top]>>
        ELSE b1

\* _build_rank_explanation(src, req, ...) up to the industry section, with
\* the order in which list(set) hands the industries on; the later sections
\* append the seniority, skills and education lines
build_rank_explanation(src, req, industries) ==
    IndustryBullets(
        TitleBullets(src.work_experiences, req)
          \o ExperienceBullets(src.total_weighted_relevant_years),
        industries, req)

\* stored work-history entries and the sources hits are made of
ExplainEntries ==
    [raw_title : {<<>>, <<"Analyst">>, <<"Industry", "Analyst">>},
     standardized_title : {<<>>},
     industry : {<<>>, <<"Hospitality">>, <<"IT">>, <<"Finance", "IT">>},
     weighted_years : {1}]

ExplainSources ==
    {[work_experiences |-> h, total_weighted_relevant_years |-> Len(h)] :
        h \in UNION {[1..n -> ExplainEntries] : n \in 0..MaxExp}}

ExplainRequests == [title : {<<"Analyst">>}, industry : {<<>>, <<"IT">>, <<"Finance">>}]

ExplainIdle == [op |-> "none"]

ExplainInit == explainOut = ExplainIdle

\* run_match explains the rank of one hit
BuildRankExplanation ==
    /\ explainOut.op = "none"
    /\ \E src \in ExplainSources, req \in ExplainRequests :
          \E industries \in Orderings(IndustrySet(src.work_experiences)) :
              explainOut' = [op |-> "build_rank_explanation", src |-> src,
                             req |-> req, industries |-> industries,
                             result |-> build_rank_explanation(src, req, industries)]
    /\ UNCHANGED <<coreVars, raceVars, syncVars, jobVars>>

\* the explanation is put on the match
ExplainReturn ==
    /\ explainOut.op # "none"
    /\ explainOut' = ExplainIdle
    /\ UNCHANGED <<coreVars, raceVars, syncVars, jobVars>>

NextExplain ==
    \/ BuildRankExplanation
    \/ ExplainReturn

EtlIdle == [op |-> "none"]

EtlInit == etlOut = EtlIdle

(***************************************************************************)
(* Delta sync: scripts/incremental_sync.py (candidates) and                *)
(* scripts/jobs_sync.py (jobs) against the source database.  Time is the   *)
(* clock of the source database; it moves on when a record is modified.    *)
(* The timestamps are compared as instants of one clock.                   *)
(***************************************************************************)
\* latest instant of the model
MaxClock == 3

\* the published records of the source: one more than a batch holds
SourceIds == 1..(LoadBatchSize + 1)

Scripts == {"candidates", "jobs"}

\* fetch_modified_candidates(since) / fetch_modified_jobs(since): the ids of
\* the rows with post_modified > since, all rows when since is None (0),
\* ORDER BY ID, from id on
RECURSIVE fetch_modified(_, _, _)
fetch_modified(src, since, id) ==
    IF id \notin DOMAIN src THEN <<>>
    ELSE IF since = 0 \/ src[id] > since
         THEN <<id>> \o fetch_modified(src, since, id + 1)
         ELSE fetch_modified(src, since, id + 1)

\* what the candidate sync hands on for a record, the mapping service and
\* the embedding providers during a sync
SyncTransformed(id) ==
    {c \in Transformed(id) :
        /\ Len(c.work_experiences) = 1 /\ c.work_experiences[1].raw_title = "a"
        /\ c.skills_text = "a"}

SyncServices ==
    {svc \in IngestServices :
        svc.kind[1] = "ok" /\ \A t \in TitleKeys : svc.ans[t] = "Accountant"}

SyncProviders == {prov \in Providers : prov.raise \/ prov.vecs["a"] # Missing}

SyncInit ==
    sync = [script |-> "", pc |-> "idle", clock |-> 1,
            src |-> [id \in SourceIds |-> 1],
            ckpt |-> [sc \in Scripts |-> 0],
            since |-> 0, sync_start |-> 0, fetch_time |-> 0, wrote |-> FALSE,
            fetched |-> <<>>, i |-> 1, processed |-> <<>>, skipped |-> 0,
            jobs_index |-> {}]

SyncUnchanged ==
    UNCHANGED <<embOut, firstVec, titleOut, titleSeen, idxOut, matchVars, ingVars,
                cfgVars, etlVars, explainVars, raceVars, jobVars>>

\* the site modifies a record: post_modified is the new instant
SourceModify ==
    /\ sync.clock < MaxClock
    /\ \E id \in SourceIds :
          sync' = [sync EXCEPT !.clock = sync.clock + 1, !.src[id] = sync.clock + 1]
    /\ UNCHANGED <<embDb, embCache, titleCache, esIndex>>
    /\ SyncUnchanged

\* main(): get_last_synced(); jobs_sync also takes sync_start = now()
SyncStart ==
    /\ sync.pc \in {"idle", "done"}
    /\ \E script \in Scripts :
          sync' = [sync EXCEPT !.script = script, !.pc = "fetch",
                               !.since = sync.ckpt[script],
                               !.sync_start = IF script = "jobs" THEN sync.clock ELSE 0,
                               !.fetch_time = 0, !.wrote = FALSE,
                               !.fetched = <<>>, !.i = 1, !.processed = <<>>,
                               !.skipped = 0]
    /\ UNCHANGED <<embDb, embCache, titleCache, esIndex>>
    /\ SyncUnchanged

\* the fetch query; with no rows the candidate sync returns, the job sync
\* writes sync_start and returns
SyncFetch ==
    /\ sync.pc = "fetch"
    /\ \E rows \in {fetch_modified(sync.src, sync.since, 1)} :
          sync' = [sync EXCEPT
                      !.fetched = rows, !.fetch_time = sync.clock,
                      !.pc = IF rows = <<>> THEN "done" ELSE "loop",
                      !.wrote = rows = <<>> /\ sync.script = "jobs",
                      !.ckpt = IF rows = <<>> /\ sync.script = "jobs"
                               THEN [sync.ckpt EXCEPT !["jobs"] = sync.sync_start]
                               ELSE sync.ckpt]
    /\ UNCHANGED <<embDb, embCache, titleCache, esIndex>>
    /\ SyncUnchanged

\* one pass of "for raw in raw_list" of the candidate sync: the try block,
\* its except branch and the test of location and title vector
SyncCandidate ==
    /\ sync.pc = "loop" /\ sync.script = "candidates"
    /\ UNCHANGED esIndex
    /\ SyncUnchanged
    /\ \E c \in SyncTransformed(sync.fetched[sync.i]), svc \in SyncServices,
          prov \in SyncProviders :
       LET raws == [j \in 1..Len(c.work_experiences) |->
                       c.work_experiences[j].raw_title]
       IN
       \E order \in Orderings(RawTitleSet(raws)) :
       \E t \in {apply_standardized_titles(raws, order, svc, titleCache)} :
       \E e \in {IF t.raised
                 THEN [raised |-> TRUE, err |-> "titles", db |-> embDb,
                       cache |-> embCache, sent |-> <<>>, vecs |-> <<>>,
                       title_fn |-> "", title_items |-> <<>>, title_text |-> ""]
                 ELSE add_embeddings_to_candidate(c, t.std, prov, embDb, embCache)} :
            /\ titleCache' = t.cache
            /\ embDb' = e.db
            /\ embCache' = e.cache
            /\ LET keep == /\ ~e.raised
                           /\ c.lat # None /\ c.lon # None
                           /\ e.vecs[1] # None
               IN  sync' = [sync EXCEPT
                              !.pc = IF sync.i = Len(sync.fetched) THEN "index" ELSE "loop",
                              !.i = sync.i + 1,
                              !.processed = IF keep
                                            THEN Append(sync.processed, Enriched(c, e.vecs))
                                            ELSE sync.processed,
                              !.skipped = IF e.raised THEN sync.skipped + 1
                                          ELSE sync.skipped]

\* one pass of "for rj in raw_jobs" of the job sync: transform_job raises or
\* its document is appended
SyncJob ==
    /\ sync.pc = "loop" /\ sync.script = "jobs"
    /\ \E raised \in BOOLEAN :
          sync' = [sync EXCEPT
                      !.pc = IF sync.i = Len(sync.fetched) THEN "index" ELSE "loop",
                      !.i = sync.i + 1,
                      !.processed = IF raised THEN sync.processed
                                    ELSE Append(sync.processed, sync.fetched[sync.i]),
                      !.skipped = IF raised THEN sync.skipped + 1 ELSE sync.skipped]
    /\ UNCHANGED <<embDb, embCache, titleCache, esIndex>>
    /\ SyncUnchanged

\* after the loop: the one bulk call over everything that was processed
SyncIndex ==
    /\ sync.pc = "index"
    /\ UNCHANGED <<embDb, embCache, titleCache>>
    /\ SyncUnchanged
    /\ IF sync.script = "jobs"
       THEN /\ sync' = [sync EXCEPT
                          !.pc = "checkpoint",
                          !.jobs_index = sync.jobs_index \cup
                              {sync.processed[k] : k \in 1..Len(sync.processed)},
                          !.processed = <<>>]
            /\ UNCHANGED esIndex
       ELSE IF sync.processed = <<>>
       THEN /\ sync' = [sync EXCEPT !.pc = "checkpoint"]
            /\ UNCHANGED esIndex
       ELSE \E rejected \in {{}, {1}} :
            \E r \in {bulk_index_candidates(sync.processed, rejected, esIndex)} :
                /\ esIndex' = r.index
                /\ sync' = [sync EXCEPT !.pc = "checkpoint", !.processed = <<>>]

\* set_last_synced: the candidate sync writes now(), the job sync the
\* sync_start it took before the fetch
SyncCheckpoint ==
    /\ sync.pc = "checkpoint"
    /\ sync' = [sync EXCEPT
                  !.pc = "done", !.wrote = TRUE,
                  !.ckpt[sync.script] = IF sync.script = "jobs" THEN sync.sync_start
                                        ELSE sync.clock]
    /\ UNCHANGED <<embDb, embCache, titleCache, esIndex>>
    /\ SyncUnchanged

NextSync ==
    \/ SourceModify
    \/ SyncStart
    \/ SyncFetch
    \/ SyncCandidate
    \/ SyncJob
    \/ SyncIndex
    \/ SyncCheckpoint

(***************************************************************************)
(* Concurrent requests on the configuration: api/main.py runs its handlers *)
(* on a thread pool, and each update_config is a load, a merge in memory,  *)
(* the open of the file for writing (which empties it) and the write.      *)
(***************************************************************************)
\* the two PATCH requests in flight
Updaters == {1, 2}

NoUpdate == [scoring_weights |-> None, min_score_raw |-> None, max_results |-> None]

\* the bodies of the two requests: weights of different dimensions, or a
\* weight and min_score_raw
RaceUpdates(p) ==
    IF p = 1
    THEN {[NoUpdate EXCEPT !.scoring_weights = <<[d \in {"title"} |-> 50]>>]}
    ELSE {[NoUpdate EXCEPT !.scoring_weights = <<[d \in {"industry"} |-> 30]>>],
          [NoUpdate EXCEPT !.min_score_raw = <<120>>]}

ReadIdle == [op |-> "none"]

RaceInit ==
    race = [pc |-> [p \in Updaters |-> "idle"],
            u |-> [p \in Updaters |-> NoUpdate],
            cfg |-> [p \in Updaters |-> load_config({})],
            last |-> {},
            read |-> ReadIdle]

RaceUnchanged ==
    UNCHANGED <<embVars, titleVars, indexVars, matchVars, ingVars, cfgOut, etlVars,
                explainVars, syncVars, jobVars>>

\* update_config, lines 58-64: load_config() and the merge into cfg
UpdateLoad(p) ==
    /\ race.pc[p] = "idle"
    /\ \E u \in RaceUpdates(p) :
          race' = [race EXCEPT !.pc[p] = "loaded", !.u[p] = u,
                               !.cfg[p] = update_config(u, cfgStore).cfg]
    /\ UNCHANGED cfgStore
    /\ RaceUnchanged

\* save_config, line 41: open(CONFIG_PATH, "w") empties the file
UpdateOpen(p) ==
    /\ race.pc[p] = "loaded"
    /\ cfgStore' = {}
    /\ race' = [race EXCEPT !.pc[p] = "opened"]
    /\ RaceUnchanged

\* save_config, line 42: json.dump and the close of the file
UpdateWrite(p) ==
    /\ race.pc[p] = "opened"
    /\ cfgStore' = save_config(race.cfg[p])
    /\ race' = [race EXCEPT !.pc[p] = "done", !.last = {race.cfg[p]}]
    /\ RaceUnchanged

\* the documents a read may return now: the last one written, and those the
\* updates in progress are writing
Allowed ==
    race.last \cup {race.cfg[p] : p \in {q \in Updaters : race.pc[q] \in {"loaded", "opened"}}}

\* another request reads the configuration: load_config and the getters
ReadConfig ==
    /\ race.read = ReadIdle
    /\ race' = [race EXCEPT !.read =
                    [op |-> "load_config", result |-> load_config(cfgStore),
                     weights |-> get_weights(cfgStore),
                     min_score_raw |-> get_min_score_raw(cfgStore),
                     max_results |-> get_max_results(cfgStore),
                     persisted |-> race.last, allowed |-> Allowed]]
    /\ UNCHANGED cfgStore
    /\ RaceUnchanged

\* the reading request is answered
ReadReturn ==
    /\ race.read # ReadIdle
    /\ race' = [race EXCEPT !.read = ReadIdle]
    /\ UNCHANGED cfgStore
    /\ RaceUnchanged

NextRace ==
    \/ \E p \in Updaters : UpdateLoad(p)
    \/ \E p \in Updaters : UpdateOpen(p)
    \/ \E p \in Updaters : UpdateWrite(p)
    \/ ReadConfig
    \/ ReadReturn

(***************************************************************************)
(* api/main.py get_job_matches, es_layer/indexer.py _job_doc: matching an  *)
(* indexed job by its post_id.  The jobs index holds what _job_doc makes   *)
(* of the jobs transform_job returns.                                      *)
(***************************************************************************)
\* required_languages of a job as transform_job writes it: name and min_level
RequiredLanguages ==
    { <<>>,
      << [name |-> "German", min_level |-> "C1"] >>,
      << [name |-> "German", min_level |-> "Fluent"] >>,
      << [name |-> "German", min_level |-> "native"],
         [name |-> "French", min_level |-> ""] >> }

\* the jobs transform_job returns: location is None unless both coordinates
\* are there, written <<lat, lon>>
TransformedJobs ==
    {[post_id |-> 1, title |-> t, industry |-> ind,
      required_skills_text |-> "", required_education_text |-> "",
      location |-> loc, radius_km |-> 50,
      pensum_min |-> p[1], pensum_max |-> p[2],
      required_languages |-> langs] :
        t \in {"a", "b"}, ind \in {"", "b"}, loc \in {None, <<0, 8>>, <<47, 8>>},
        p \in JobPensums, langs \in RequiredLanguages}

\* _job_doc(j): the document of the jobs index, without its embeddings
job_doc(j) ==
    [post_id |-> j.post_id,
     title |-> j.title,
     industry |-> j.industry,
     required_skills_text |-> j.required_skills_text,
     required_education_text |-> j.required_education_text,
     location |-> IF j.location # None THEN <<j.location[1], j.location[2]>>
                  ELSE None,
     radius_km |-> j.radius_km,
     pensum_min |-> j.pensum_min,
     pensum_max |-> j.pensum_max,
     required_languages |-> j.required_languages]

\* the JobMatchRequest get_job_matches builds from _source; the document has
\* the key location, so src.get("location", {}) is its value
job_request(src) ==
    [title |-> src.title, industry |-> src.industry,
     required_skills |-> src.required_skills_text,
     required_education |-> src.required_education_text,
     location_lat |-> src.location[1], location_lon |-> src.location[2],
     radius_km |-> src.radius_km,
     pensum_min |-> src.pensum_min, pensum_max |-> src.pensum_max,
     required_languages |-> <<>>,
     min_score |-> None, max_results |-> DefaultMaxResults]

\* the request a caller of POST /api/match writes from the stored fields
direct_request(src) ==
    [job_request(src) EXCEPT !.required_languages = src.required_languages]

\* get_job_matches(post_id): found says whether es.get returns the document
\* src; [raised, status, err, req, filters, searches, matches, message, db,
\* cache].  es.get failing is answered with HTTPException(404); None.get(...)
\* on a stored location of None is an AttributeError nothing handles.
get_job_matches(found, src, store, prov, beh, db, cache, index) ==
    IF ~found
    THEN [raised |-> TRUE, status |-> 404, err |-> "Job not found", req |-> None,
          filters |-> <<>>, searches |-> 0, matches |-> <<>>,
          message |-> NoMessage, db |-> db, cache |-> cache]
    ELSE IF src.location = None
    THEN [raised |-> TRUE, status |-> 500, err |-> "AttributeError", req |-> None,
          filters |-> <<>>, searches |-> 0, matches |-> <<>>,
          message |-> NoMessage, db |-> db, cache |-> cache]
    ELSE CHOOSE out \in
           {[raised |-> r.raised, status |-> IF r.raised THEN 500 ELSE 200,
             err |-> r.err, req |-> job_request(src), filters |-> r.filters,
             searches |-> r.searches, matches |-> r.matches,
             message |-> r.message, db |-> r.db, cache |-> r.cache] :
              r \in {run_match(job_request(src), None, store, prov, beh, db,
                               cache, index)}} : TRUE

JobIdle == [op |-> "none"]

JobInit == jobOut = JobIdle

\* a caller runs GET /api/jobs/{post_id}/matches while the jobs index has
\* the document of a job or none for this post_id
GetJobMatches ==
    /\ jobOut = JobIdle
    /\ idxOut.op = "none"
    /\ \E found \in BOOLEAN, j \in TransformedJobs, prov \in Providers,
          beh \in Backends :
       \E r \in {get_job_matches(found, job_doc(j), cfgStore, prov, beh, embDb,
                                 embCache, esIndex)} :
            /\ embDb' = r.db
            /\ embCache' = r.cache
            /\ jobOut' = [op |-> "get_job_matches", found |-> found,
                          src |-> job_doc(j), raised |-> r.raised,
                          status |-> r.status, err |-> r.err, req |-> r.req,
                          filters |-> r.filters, searches |-> r.searches,
                          matches |-> r.matches, message |-> r.message]
    /\ UNCHANGED <<embOut, firstVec, titleVars, indexVars, matchVars, ingVars>>
    /\ UNCHANGED <<cfgVars, etlVars, explainVars, raceVars, syncVars>>

\* the caller takes the MatchResponse (or the error)
JobReturn ==
    /\ jobOut # JobIdle
    /\ jobOut' = JobIdle
    /\ UNCHANGED <<coreVars, explainVars, raceVars, syncVars>>

\* the index is filled between two requests
JobIndexCandidates ==
    /\ jobOut = JobIdle
    /\ BulkIndexCandidates

NextJob ==
    \/ JobIndexCandidates
    \/ IndexReturn
    \/ GetJobMatches
    \/ JobReturn


Init ==
    /\ EmbInit /\ TitleInit /\ IndexInit /\ MatchInit /\ IngInit /\ CfgInit
    /\ EtlInit /\ ExplainInit /\ RaceInit /\ SyncInit /\ JobInit

SpecTitles == Init /\ [][NextTitles]_vars

SpecEmbed == Init /\ [][NextEmbed]_vars

SpecMatch == Init /\ [][NextMatch]_vars

SpecIngest == Init /\ [][NextIngest]_vars

SpecConfig == Init /\ [][NextConfig]_vars

SpecScore == Init /\ [][NextScore]_vars

SpecPipeline == Init /\ [][NextPipeline]_vars

SpecExplain == Init /\ [][NextExplain]_vars

SpecRace == Init /\ [][NextRace]_vars

SpecSync == Init /\ [][NextSync]_vars

SpecJob == Init /\ [][NextJob]_vars

SpecEtl == Init /\ [][NextEtl]_vars

(***************************************************************************)
(* Claims on the embedding subsystem (SpecEmbed).                          *)
(***************************************************************************)
\* blank as the claims mean it: empty or whitespace only
BlankText(t) == t \in {"", " "}

\* C7: a second embed_text(t), made after a first embed_text(t) has
\* returned, issues no external embedding call and returns a vector
\* identical to the one the first call returned.
C7_SecondEmbedIdentical ==
    (embOut.op = "embed_text" /\ embOut.again /\ ~embOut.raised)
        => /\ embOut.sent = <<>>
           /\ embOut.out = firstVec[Strip(embOut.text)]

C10_CacheFailureIsMiss ==
    embOut.op = "embed_text" => embOut.err # "cache"

(***************************************************************************)
(* Claims on the title subsystem (SpecTitles).                             *)
(***************************************************************************)
\* C4: once map_titles_batch has returned for a call that contained a
\* non-blank raw title t, no later call sends t to the external mapping
\* service, whatever the service answered the first time.
C4_NoRepeatedExternalCall ==
    \A b \in 1..Len(titleOut.sent) :
        \A j \in 1..Len(titleOut.sent[b]) :
            titleOut.sent[b][j] \notin titleSeen

\* C5: when the external call of one batch raises or answers unparsable
\* content, that does not make map_titles_batch raise, every title of the
\* batch is 'NONE' in the returned map and in the cache, and the titles of
\* the batches whose call answered get what their own call answered.
C5_FailedBatchDegrades ==
    /\ titleOut.raised =>
          \E b \in 1..Len(titleOut.sent) : titleOut.kind[b] = "nondict"
    /\ \A b \in 1..Len(titleOut.sent) :
          \A j \in 1..Len(titleOut.sent[b]) :
             LET t == titleOut.sent[b][j] IN
             /\ titleOut.kind[b] = "fail" =>
                   /\ titleOut.result[t] = "NONE"
                   /\ titleCache[t] = "NONE"
             /\ (titleOut.kind[b] = "ok" /\ titleOut.ans[b][j] # Omit) =>
                   /\ titleOut.result[t] = StdOrNone(titleOut.ans[b][j])
                   /\ titleCache[t] = StdOrNone(titleOut.ans[b][j])

\* C5 witness: a call of two batches has returned; the first external call
\* failed, the second answered a vocabulary entry
C5_Witness ==
    /\ titleOut.op = "apply_standardized_titles"
    /\ ~titleOut.raised
    /\ Len(titleOut.sent) = 2
    /\ titleOut.kind[1] = "fail"
    /\ titleOut.kind[2] = "ok"
    /\ titleOut.ans[2][1] = "Accountant"

\* C6: every value map_titles_batch returns, every value in the title
\* cache and every standardized_title set by apply_standardized_titles is
\* a vocabulary entry or 'NONE', and every entry has one set.
C6_OnlyVocabularyOrNone ==
    /\ \A k \in Keys :
          /\ titleOut.result[k] \in StandardizedTitles \cup {"NONE", NoStd}
          /\ titleCache[k] \in StandardizedTitles \cup {"NONE", NoStd}
    /\ (titleOut.op = "apply_standardized_titles" /\ ~titleOut.raised) =>
          /\ Len(titleOut.std) = Len(titleOut.raws)
          /\ \A i \in 1..Len(titleOut.std) :
                titleOut.std[i] \in StandardizedTitles \cup {"NONE"}

(***************************************************************************)
(* Claims on the match subsystem (SpecMatch).                              *)
(***************************************************************************)
\* C1: run_match never raises to its caller; whenever a step of the request
\* fails (the job-text embedding call, the backend search call) the
\* response has no matches, total_above_threshold 0 and a message, and the
\* search is not repeated.
C1_RunMatchNeverRaises ==
    matchOut.op = "run_match" =>
        /\ ~matchOut.raised
        /\ matchOut.searches <= 1
        /\ ( \/ (matchOut.provider_raise /\ matchOut.sent # <<>>)
             \/ matchOut.kind # "ok" ) =>
               /\ matchOut.matches = <<>>
               /\ matchOut.total = 0
               /\ matchOut.message # NoMessage

\* the workload conditions of a job request on an indexed document
PensumFits(d, req) ==
    /\ d.pensum_desired >= req.pensum_min
    /\ d.pensum_from <= req.pensum_max

\* C2: the filter list of every request holds the two workload conditions
\* as two separate filters (pensum_desired >= pensum_min, pensum_from <=
\* pensum_max), and no match of run_match is a candidate whose pensum_from
\* exceeds the job's pensum_max or whose pensum_desired is below the job's
\* pensum_min, whatever its score.
C2_BothPensumFilters ==
    (matchOut.op = "run_match" /\ ~matchOut.raised) =>
        LET req == matchOut.req
            flt == matchOut.filters
        IN  /\ \E i, j \in 1..Len(flt) :
                 /\ i # j
                 /\ flt[i] = [f |-> "range", field |-> "pensum_desired",
                              op |-> "gte", value |-> req.pensum_min]
                 /\ flt[j] = [f |-> "range", field |-> "pensum_from",
                              op |-> "lte", value |-> req.pensum_max]
            /\ \A m \in 1..Len(matchOut.matches) :
                 /\ matchOut.matches[m].pensum_desired >= req.pensum_min
                 /\ matchOut.matches[m].pensum_from <= req.pensum_max
                 /\ \A d \in esIndex :
                      d.post_id = matchOut.matches[m].post_id => PensumFits(d, req)

\* C2 witness: run_match returned one match while the index also holds a
\* candidate whose pensum_from exceeds the job's pensum_max and whose score
\* is the higher one and above the threshold
C2_Witness ==
    /\ matchOut.op = "run_match"
    /\ ~matchOut.raised
    /\ Len(matchOut.matches) = 1
    /\ \E d \in esIndex :
          /\ d.pensum_from > matchOut.req.pensum_max
          /\ matchOut.score[d.post_id] = 180
          /\ matchOut.req.min_score = None
          /\ matchOut.score[matchOut.matches[1].post_id] = 180
          /\ d.post_id # matchOut.matches[1].post_id

\* a candidate with a latitude, a longitude and a title vector of the fixed
\* dimensionality
HasPointAndTitleVector(c) ==
    /\ c.lat # None
    /\ c.lon # None
    /\ c.aggregated_title_embedding # None
    /\ Len(c.aggregated_title_embedding) = Dims

\* C3: bulk_index_candidates emits an index action for a candidate of its
\* list exactly when the candidate has a latitude, a longitude and a title
\* vector of the fixed dimensionality; the documents of the other
\* candidates are left as they were in the index, and every candidate with
\* an action that the backend accepts is in the index afterwards.
C3_OnlyLocatedEmbeddedIndexed ==
    [][ (idxOut.op = "none" /\ idxOut'.op = "bulk_index_candidates") =>
          LET cs == idxOut'.candidates
              acts == idxOut'.actions
          IN  \A i \in 1..Len(cs) :
                IF HasPointAndTitleVector(cs[i])
                THEN /\ \E j \in 1..Len(acts) : acts[j].post_id = cs[i].post_id
                     /\ cs[i].post_id \notin idxOut'.rejected =>
                          \E d \in esIndex' :
                             /\ d.post_id = cs[i].post_id
                             /\ d.location = <<cs[i].lat[1], cs[i].lon[1]>>
                             /\ Len(d.aggregated_title_embedding) = Dims
                ELSE /\ \A j \in 1..Len(acts) : acts[j].post_id # cs[i].post_id
                     /\ {d \in esIndex' : d.post_id = cs[i].post_id}
                          = {d \in esIndex : d.post_id = cs[i].post_id}
      ]_vars

\* C3 witness: a list of a candidate without latitude and a candidate with a
\* zero title vector has been handed over; one action was emitted and the
\* second candidate is in the index
C3_Witness ==
    /\ idxOut.op = "bulk_index_candidates"
    /\ Len(idxOut.candidates) = 2
    /\ idxOut.candidates[1].lat = None
    /\ idxOut.candidates[2].aggregated_title_embedding = ZeroVec
    /\ Len(idxOut.actions) = 1
    /\ \E d \in esIndex : d.post_id = idxOut.candidates[2].post_id

(***************************************************************************)
(* Claims on the ingestion run (SpecIngest).                               *)
(***************************************************************************)
\* C9: when the external embedding call fails while a candidate is being
\* enriched, add_embeddings_to_candidate does not raise, the candidate goes
\* on with a vector for each of its four fields (the zero vector for the
\* affected texts) and is kept for indexing when it has a location, and the
\* run goes on.
C9_EmbeddingFailureDegrades ==
    ing.last.provider_failed =>
        /\ ~ing.last.raised
        /\ Len(ing.last.vecs) = 4
        /\ \A k \in 1..Len(ing.last.vecs) : ing.last.vecs[k] # None
        /\ ing.pc \in {"loop", "index", "done"}

(***************************************************************************)
(* Claims on the configuration store (SpecConfig).                         *)
(***************************************************************************)
\* C11: update_config is a merge-update.  After a PATCH that sets a field,
\* the persisted scoring_weights are the previous map with exactly the
\* dimensions named in the update replaced and every other dimension
\* unchanged; min_score_raw and max_results change only when the update
\* supplies them; a PATCH with no field set leaves the store as it was.
C11_MergeUpdate ==
    [][ (cfgOut.op = "none" /\ cfgOut'.op = "patch_config") =>
          LET u == cfgOut'.updates
              prev == load_config(cfgStore)
              named == IF u.scoring_weights = None THEN {}
                       ELSE DOMAIN u.scoring_weights[1]
          IN  IF u.scoring_weights = None /\ u.min_score_raw = None
                 /\ u.max_results = None
              THEN cfgStore' = cfgStore
              ELSE /\ Cardinality(cfgStore') = 1
                   /\ \A new \in cfgStore' :
                        /\ DOMAIN new.scoring_weights =
                              (DOMAIN prev.scoring_weights) \cup named
                        /\ \A d \in named :
                              new.scoring_weights[d] = u.scoring_weights[1][d]
                        /\ \A d \in (DOMAIN prev.scoring_weights) \ named :
                              new.scoring_weights[d] = prev.scoring_weights[d]
                        /\ new.min_score_raw =
                              IF u.min_score_raw = None THEN prev.min_score_raw
                              ELSE u.min_score_raw[1]
                        /\ new.max_results =
                              IF u.max_results = None THEN prev.max_results
                              ELSE u.max_results[1]
      ]_vars

\* a PATCH naming only "title" has been applied to a store that held a
\* "language" weight and a configured threshold: both are still there
C11_Witness ==
    /\ cfgOut.op = "patch_config"
    /\ cfgOut.updates.scoring_weights # None
    /\ cfgOut.updates.min_score_raw = None
    /\ \E cfg \in cfgStore :
         /\ DOMAIN cfgOut.updates.scoring_weights[1] = {"title"}
         /\ "language" \in DOMAIN cfg.scoring_weights
         /\ cfg.scoring_weights["title"] = 30
         /\ cfg.scoring_weights["industry"] = 20
         /\ cfg.min_score_raw = 120

(***************************************************************************)
(* Claims on the scoring subsystem (SpecScore).                            *)
(***************************************************************************)
\* C12: the minimum score that run_match hands to the backend is the
\* request's min_score when the request carries one, else the
\* min_score_override argument when it is given, else the min_score_raw
\* that the configuration store holds when the request is made; no match
\* of the response has a raw score below it.
C12_EffectiveMinScore ==
    [][ (matchOut.op = "none" /\ matchOut'.op = "run_match" /\ ~matchOut'.raised) =>
          LET req == matchOut'.req
              configured == IF cfgStore = {} THEN MinScoreRaw
                            ELSE (CHOOSE cfg \in cfgStore : TRUE).min_score_raw
              expected == IF req.min_score # None THEN req.min_score[1]
                          ELSE IF matchOut'.min_score_override # None
                               THEN matchOut'.min_score_override[1]
                               ELSE configured
          IN  /\ matchOut'.min_score = <<expected>>
              /\ \A i \in 1..Len(matchOut'.matches) :
                    matchOut'.score[matchOut'.matches[i].post_id] >= expected
      ]_vars

\* a request without threshold and without override has been answered under
\* a configured threshold of 1.20: a candidate scored 1.37, below the
\* default 1.55, is in the response
C12_Witness ==
    /\ matchOut.op = "run_match"
    /\ matchOut.req.min_score = None
    /\ matchOut.min_score_override = None
    /\ matchOut.min_score = <<120>>
    /\ \E i \in 1..Len(matchOut.matches) :
          matchOut.score[matchOut.matches[i].post_id] = 137

KthOf(S, k) == CHOOSE i \in S : Cardinality({j \in S : j <= i}) = k

\* the title an entry resolves to: the standardized title, else the raw one
ResolvedTitle(exp, std) == Strip(IF std # "" THEN std ELSE exp.raw_title)

C15_NonzeroVectors ==
    /\ \A d \in esIndex :
         \A v \in {d.aggregated_title_embedding, d.aggregated_industry_embedding,
                   d.skills_embedding, d.education_embedding} :
            v # None => SumSquares(v) > 0
    /\ (matchOut.op = "run_match" /\ matchOut.params # None) =>
         \A v \in {matchOut.params.titleVec, matchOut.params.industryVec,
                   matchOut.params.skillsVec, matchOut.params.eduVec} :
            SumSquares(v) > 0

\* C16: for a hit whose candidate has no industry text, an empty skills text
\* or an empty education text, the similarity term of that dimension is the
\* neutral value 1.0, whatever the job's query vector is.
C16_NeutralWithoutVector ==
    matchOut.op = "run_match" =>
       \A i \in 1..Len(matchOut.hits) :
          LET h == matchOut.hits[i]
          IN  /\ (\A j \in 1..Len(h.work_experiences) :
                     Strip(h.work_experiences[j].industry) = "") =>
                   matchOut.sims[i].industry = <<100>>
              /\ Strip(h.skills_text) = "" => matchOut.sims[i].skills = <<100>>
              /\ Strip(h.education_text) = "" =>
                   matchOut.sims[i].education = <<100>>

(***************************************************************************)
(* Claims on the ETL functions (SpecEtl).                                  *)
(***************************************************************************)
\* the positions in SENIORITY_LEVELS of the tiers of which the title
\* contains a keyword as whole words
TiersIn(title) ==
    {i \in 1..Len(SENIORITY_LEVELS) :
        \E kw \in SENIORITY_KEYWORDS[SENIORITY_LEVELS[i]] : Search(kw, title)}

\* C17: the classifier gives a title that contains a keyword the most senior
\* tier of which it contains a keyword, whatever keywords of lower tiers it
\* also contains; a title with an executive keyword is executive.
C17_MostSeniorTierWins ==
    etlOut.op = "match_seniority" =>
       /\ \A i \in TiersIn(etlOut.title) :
            (\A j \in TiersIn(etlOut.title) : j <= i) =>
               etlOut.result = SENIORITY_LEVELS[i]
       /\ (\E kw \in SENIORITY_KEYWORDS["executive"] : Search(kw, etlOut.title)) =>
            etlOut.result = "executive"

\* "junior cfo" has been classified executive
C17_Witness ==
    /\ etlOut.op = "match_seniority"
    /\ etlOut.title = <<"junior", "cfo">>
    /\ etlOut.result = "executive"

\* C18: infer_seniority gives one of the six tiers; it gives "mid" for an
\* empty history, for an empty first title and for a first title without
\* keyword; two histories with the same first title get the same tier.
C18_FirstEntryOnly ==
    [][ etlOut'.op = "infer_seniority" =>
          LET h == etlOut'.work_experiences
          IN  /\ \E i \in 1..Len(SENIORITY_LEVELS) :
                    etlOut'.result = SENIORITY_LEVELS[i]
              /\ h = <<>> => etlOut'.result = "mid"
              /\ (h # <<>> /\ h[1].raw_title = <<>>) => etlOut'.result = "mid"
              /\ (h # <<>> /\ TiersIn(Lower(h[1].raw_title)) = {}) =>
                    etlOut'.result = "mid"
              /\ ( /\ etlOut.op = "infer_seniority"
                   /\ h # <<>>
                   /\ etlOut.work_experiences # <<>>
                   /\ etlOut.work_experiences[1].raw_title = h[1].raw_title ) =>
                    etlOut'.result = etlOut.result
      ]_vars

\* a history whose first title is "Senior" and whose second is "CFO" has
\* been given the tier senior
C18_Witness ==
    /\ etlOut.op = "infer_seniority"
    /\ Len(etlOut.work_experiences) = 2
    /\ etlOut.work_experiences[1].raw_title = <<"Senior">>
    /\ etlOut.work_experiences[2].raw_title = <<"CFO">>
    /\ etlOut.result = "senior"

\* C19: transform_job gives the tier of the seniority field when the field
\* names one of the six tiers, and otherwise the tier that a candidate whose
\* first title is the job's title gets from infer_seniority ("mid" for an
\* empty title and for a title without keyword).
C19_JobSeniorityLikeCandidate ==
    etlOut.op = "transform_job" =>
       LET named == {i \in 1..Len(SENIORITY_LEVELS) :
                        SENIORITY_LEVELS[i] = StripLower(etlOut.field)}
       IN  /\ \A i \in named : etlOut.result = SENIORITY_LEVELS[i]
           /\ named = {} =>
                etlOut.result =
                    infer_seniority(<<[raw_title |-> etlOut.post_title]>>)

\* C20: recency_weight(end_year) is 1.0 for end_year >= CURRENT_YEAR, lies in
\* (0, 1], is 1.0 only for end_year >= CURRENT_YEAR, and of two years that
\* are not in the future the earlier one has the strictly smaller weight.
C20_RecencyWeightDecays ==
    [][ etlOut'.op = "recency_weight" =>
          /\ etlOut'.end_year >= CURRENT_YEAR => etlOut'.result = WeightScale
          /\ etlOut'.result > 0 /\ etlOut'.result <= WeightScale
          /\ etlOut'.result = WeightScale => etlOut'.end_year >= CURRENT_YEAR
          /\ ( /\ etlOut.op = "recency_weight"
               /\ etlOut.end_year <= CURRENT_YEAR
               /\ etlOut'.end_year < etlOut.end_year ) =>
                etlOut'.result < etlOut.result
      ]_vars

\* the weight of a role that ended 16 years ago has been computed: it is
\* below 0.40, the weight of the year before lies above it
C20_Witness ==
    /\ etlOut.op = "recency_weight"
    /\ etlOut.end_year = CURRENT_YEAR - 16
    /\ etlOut.result > 0
    /\ etlOut.result < 4000


\* C21: recency_weight has no jump at its piece boundaries: the weight it
\* returns 5 years back (the linear piece) equals, within the tolerance, the
\* value of the second piece's expression there, and the weight it returns 15
\* years back (the second piece) equals, within the tolerance, the value of
\* the third piece's expression there
C21_ContinuousAtBoundaries ==
    etlOut.op = "recency_weight" =>
        /\ CURRENT_YEAR - etlOut.end_year = 5 =>
                /\ etlOut.result - MidPiece(5) <= Tolerance
                /\ MidPiece(5) - etlOut.result <= Tolerance
        /\ CURRENT_YEAR - etlOut.end_year = 15 =>
                /\ etlOut.result - LatePiece(15) <= Tolerance
                /\ LatePiece(15) - etlOut.result <= Tolerance


\* the entries of a scored history whose industry is not blank
NonBlank(exps) == {i \in 1..Len(exps) : Strip(exps[i].industry) # ""}

\* C22: after apply_experience_scoring every entry has years_in_role >= 1
\* and weighted_years = years_in_role * recency_weight(end_year) for the
\* years_in_role stored on it, the total is the sum of the entries'
\* weighted_years, and the industry parts are one (industry, weighted_years)
\* pair per entry with a non-blank industry, in entry order
C22_ExperienceScoring ==
    etlOut.op = "apply_experience_scoring" =>
        LET exps  == etlOut.result.work_experiences
            parts == etlOut.result.aggregated_industry_parts
        IN  /\ Len(exps) = Len(etlOut.input)
            /\ \A i \in 1..Len(exps) :
                  /\ exps[i].years_in_role >= 1
                  /\ exps[i].weighted_years =
                        exps[i].years_in_role * recency_weight(exps[i].end_year)
            /\ etlOut.result.total_weighted_relevant_years =
                  SumSeq([i \in 1..Len(exps) |-> exps[i].weighted_years])
            /\ Len(parts) = Cardinality(NonBlank(exps))
            /\ \A k \in 1..Len(parts) :
                  parts[k] = <<Strip(exps[KthOf(NonBlank(exps), k)].industry),
                               exps[KthOf(NonBlank(exps), k)].weighted_years>>


\* a well-formed value of a meta field: absent, or text of the expected form
WellFormed(field, x) ==
    \/ x.type = "none"
    \/ /\ x.type = "str"
       /\ CASE field \in {"lat", "lon", "pensum_desired"} ->
                   Strip(x.v) \in NumberTexts
            [] field = "available_from" -> Strip(x.v) \in DateTexts
            [] OTHER -> TRUE

\* the documented default of a field of the normalized record
FieldDefault(field) ==
    CASE field \in {"lat", "lon"} -> None
      [] field = "pensum_desired" -> 100
      [] field = "phone" -> ""
      [] field = "available_from" -> "<None>"

\* C23: transform_candidate on a raw record with exactly one malformed meta
\* field does not raise, that field has its default in the normalized
\* record, and every other field is what it is without the malformed field
C23_MalformedFieldDegradesAlone ==
    etlOut.op = "transform_candidate" =>
        \A f \in MetaFields :
            (\A g \in MetaFields : WellFormed(g, etlOut.meta[g]) <=> g # f) =>
                /\ ~etlOut.result.raised
                /\ etlOut.result.doc[f] = FieldDefault(f)
                /\ \A g \in MetaFields \ {f} :
                      etlOut.result.doc[g] =
                        transform_candidate([etlOut.meta EXCEPT ![f] = PyNone]).doc[g]


\* the bullets of a result with one of these kinds
BulletsOf(bullets, kinds) == {i \in 1..Len(bullets) : bullets[i].kind \in kinds}

\* C24: the explainer emits "Industry match: <industry>" only for one of the
\* (at most three) considered industries that shares a whole word with the
\* job's industry text; a candidate with an industry gets exactly one
\* industry bullet, and without a match line it is the generic line listing
\* up to three industries
C24_IndustryBullet ==
    explainOut.op = "build_rank_explanation" =>
        LET bs  == explainOut.result
            top == SubSeq(explainOut.industries, 1, Min(3, Len(explainOut.industries)))
        IN  /\ \A i \in BulletsOf(bs, {"Industry match"}) :
                  \E k \in 1..Len(top) :
                      /\ top[k] = bs[i].text
                      /\ WordSet(top[k]) \cap WordSet(explainOut.req.industry) # {}
            /\ Len(explainOut.industries) > 0 =>
                  /\ Cardinality(BulletsOf(bs, {"Industry match", "Industry"})) = 1
                  /\ BulletsOf(bs, {"Industry match"}) = {} =>
                        \E i \in BulletsOf(bs, {"Industry"}) : bs[i].list = top


\* C25: a configuration read that runs while an update_config is in
\* progress, after a valid configuration had been persisted, returns the
\* document as it was before the update or as it is after it, and the
\* getters return that document's values
C25_ReadSeesOldOrNew ==
    (race.read.op = "load_config" /\ race.read.persisted # {}) =>
        /\ race.read.result \in race.read.allowed
        /\ \E cfg \in race.read.allowed :
              /\ race.read.weights = cfg.scoring_weights
              /\ race.read.min_score_raw = cfg.min_score_raw
              /\ race.read.max_results = cfg.max_results

\* the configuration holds every value the body u supplies
Holds(cfg, u) ==
    /\ u.scoring_weights # None =>
          \A d \in DOMAIN u.scoring_weights[1] :
              d \in DOMAIN cfg.scoring_weights
              /\ cfg.scoring_weights[d] = u.scoring_weights[1][d]
    /\ u.min_score_raw # None => cfg.min_score_raw = u.min_score_raw[1]
    /\ u.max_results # None => cfg.max_results = u.max_results[1]

\* C26: after two concurrent update_config calls that supply different
\* keys have both finished, the persisted configuration holds both supplied
\* values
C26_NoLostUpdate ==
    (\A p \in Updaters : race.pc[p] = "done") =>
        \A p \in Updaters : Holds(load_config(cfgStore), race.u[p])


\* C27: in every ingestion run, the initial load and the candidate sync,
\* the enriched candidates held in memory and not yet handed to the storage
\* backend never exceed the batch size
C27_AtMostOneBatchInMemory ==
    /\ Len(ing.processed) <= LoadBatchSize
    /\ sync.script = "candidates" => Len(sync.processed) <= LoadBatchSize

\* C28: the checkpoint a sync run has written is not later than the instant
\* of its fetch query, so a record modified after the fetch of that run is
\* later than the checkpoint and the next run fetches it; for the candidate
\* sync and for the job sync
C28_CheckpointNotAfterFetch ==
    (sync.pc = "done" /\ sync.wrote) =>
        /\ sync.ckpt[sync.script] <= sync.fetch_time
        /\ \A id \in SourceIds :
              sync.src[id] > sync.fetch_time => sync.src[id] > sync.ckpt[sync.script]


\* C29: no keyword of the seniority table is shadowed: a title that is
\* exactly a keyword listed for a tier is classified as that tier
C29_NoKeywordShadowed ==
    etlOut.op = "match_seniority" =>
        \A level \in DOMAIN SENIORITY_KEYWORDS :
            etlOut.title \in SENIORITY_KEYWORDS[level] => etlOut.result = level


\* C30: matching an indexed job by its id applies the hard filters of the
\* direct request built from the stored fields of the job, so every stored
\* language requirement is a filter of the search, and a stored job without
\* a location is answered without a raised fault
C30_JobMatchLikeDirectRequest ==
    (jobOut.op = "get_job_matches" /\ jobOut.found) =>
        /\ jobOut.src.location = None => ~jobOut.raised
        /\ (jobOut.src.location # None /\ jobOut.searches = 1) =>
              jobOut.filters = build_hard_filters(direct_request(jobOut.src))

====
